------------------------------ MODULE Spec2Model ------------------------------
(***************************************************************************)
(* The streaming chat client of extensions/chat-bubble/assets/chat.js:     *)
(* API.streamResponse (frame decoder), API.handleStreamEvent (dispatcher), *)
(* Message.send, Auth.openAuthPopup and Auth.startTokenPolling (poller).   *)
(* JavaScript strings are sequences of one-character strings.              *)
(***************************************************************************)
EXTENDS Integers, Sequences, FiniteSets, TLC

NL == "\n"
QUOTE == "\""
BACKSLASH == "\\"

(***************************************************************************)
(* String literals of the source.                                          *)
(***************************************************************************)
\* data: 
Prefix_data == <<"d","a","t","a",":"," ">>
\* type
K_type == <<"t","y","p","e">>
\* conversation_id
K_conversation_id == <<"c","o","n","v","e","r","s","a","t","i","o","n","_","i","d">>
\* chunk
K_chunk == <<"c","h","u","n","k">>
\* products
K_products == <<"p","r","o","d","u","c","t","s">>
\* tool_use_message
K_tool_use_message == <<"t","o","o","l","_","u","s","e","_","m","e","s","s","a","g","e">>
\* id
T_id == <<"i","d">>
\* chunk
T_chunk == <<"c","h","u","n","k">>
\* message_complete
T_message_complete == <<"m","e","s","s","a","g","e","_","c","o","m","p","l","e","t","e">>
\* end_turn
T_end_turn == <<"e","n","d","_","t","u","r","n">>
\* error
T_error == <<"e","r","r","o","r">>
\* rate_limit_exceeded
T_rate_limit_exceeded ==
  <<"r","a","t","e","_","l","i","m","i","t","_","e","x","c","e","e","d","e","d">>
\* auth_required
T_auth_required == <<"a","u","t","h","_","r","e","q","u","i","r","e","d">>
\* product_results
T_product_results == <<"p","r","o","d","u","c","t","_","r","e","s","u","l","t","s">>
\* tool_use
T_tool_use == <<"t","o","o","l","_","u","s","e">>
\* new_message
T_new_message == <<"n","e","w","_","m","e","s","s","a","g","e">>
\* content_block_complete
T_content_block_complete ==
  <<"c","o","n","t","e","n","t","_","b","l","o","c","k","_","c","o","m","p","l","e","t","e">>
\* undefined
Str_undefined == <<"u","n","d","e","f","i","n","e","d">>
\* Calling tool: 
Str_CallingTool == <<"C","a","l","l","i","n","g"," ","t","o","o","l",":"," ">>
\*  with arguments: 
Str_WithArguments == <<" ","w","i","t","h"," ","a","r","g","u","m","e","n","t","s",":"," ">>
\* shopify.com/authentication
Str_AuthHost ==
  <<"s","h","o","p","i","f","y",".","c","o","m","/","a","u","t","h","e","n","t","i","c","a","t",
    "i","o","n">>
\* Sorry, I couldn't process your request. Please try again later.
Msg_StreamError ==
  <<"S","o","r","r","y",","," ","I"," ","c","o","u","l","d","n","'","t"," ","p","r","o","c","e",
    "s","s"," ","y","o","u","r"," ","r","e","q","u","e","s","t","."," ","P","l","e","a","s","e",
    " ","t","r","y"," ","a","g","a","i","n"," ","l","a","t","e","r",".">>
\* Sorry, our servers are currently busy. Please try again later.
Msg_RateLimit ==
  <<"S","o","r","r","y",","," ","o","u","r"," ","s","e","r","v","e","r","s"," ","a","r","e"," ",
    "c","u","r","r","e","n","t","l","y"," ","b","u","s","y","."," ","P","l","e","a","s","e"," ",
    "t","r","y"," ","a","g","a","i","n"," ","l","a","t","e","r",".">>
\* Authentication in progress. Please complete the process in the popup window.
Msg_AuthInProgress ==
  <<"A","u","t","h","e","n","t","i","c","a","t","i","o","n"," ","i","n"," ","p","r","o","g","r",
    "e","s","s","."," ","P","l","e","a","s","e"," ","c","o","m","p","l","e","t","e"," ","t","h",
    "e"," ","p","r","o","c","e","s","s"," ","i","n"," ","t","h","e"," ","p","o","p","u","p"," ",
    "w","i","n","d","o","w",".">>
\* Authorization successful! I'm now continuing with your request.
Msg_AuthSuccess ==
  <<"A","u","t","h","o","r","i","z","a","t","i","o","n"," ","s","u","c","c","e","s","s","f","u",
    "l","!"," ","I","'","m"," ","n","o","w"," ","c","o","n","t","i","n","u","i","n","g"," ","w",
    "i","t","h"," ","y","o","u","r"," ","r","e","q","u","e","s","t",".">>

(***************************************************************************)
(* An absent value (null / undefined) is the empty sequence, a present     *)
(* value v the one-element sequence <<v>>.                                  *)
(***************************************************************************)
None == <<>>
Some(v) == <<v>>

(***************************************************************************)
(* String primitives of JavaScript used by the decoder.                    *)
(***************************************************************************)
\* String.prototype.startsWith
StartsWith(s, p) == Len(s) >= Len(p) /\ SubSeq(s, 1, Len(p)) = p

\* String.prototype.slice(n)
Slice(s, n) == SubSeq(s, n + 1, Len(s))

\* s has p at index i (1-based)
MatchAt(s, i, p) ==
  /\ i >= 1
  /\ i + Len(p) - 1 <= Len(s)
  /\ SubSeq(s, i, i + Len(p) - 1) = p

\* String.prototype.includes
Includes(s, p) == \E i \in 1..(Len(s) + 1) : MatchAt(s, i, p)

\* the least element of a non-empty set of integers
Min(S) == CHOOSE x \in S : \A y \in S : x <= y

\* s.indexOf('\n\n'), 1-based: the index of the first delimiter, 0 when there is none
IndexOfDelim(s) ==
  LET D == {i \in 1..(Len(s) - 1) : s[i] = NL /\ s[i + 1] = NL} IN
    IF D = {} THEN 0 ELSE Min(D)

\* buffer.split('\n\n'): the segments between leftmost, non-overlapping delimiters
RECURSIVE SplitFrames(_)
SplitFrames(s) ==
  LET i == IndexOfDelim(s) IN
    IF i = 0 THEN <<s>>
    ELSE <<SubSeq(s, 1, i - 1)>> \o SplitFrames(SubSeq(s, i + 2, Len(s)))

(***************************************************************************)
(* JSON.parse, for the JSON texts made of objects, arrays and strings.     *)
(* A value is [t |-> "str", v |-> characters], [t |-> "arr", v |-> values] *)
(* or [t |-> "obj", v |-> sequence of [k |-> key, v |-> value]].  A parse   *)
(* step returns [ok, v, i]: i is the index after the parsed text.          *)
(***************************************************************************)
ParseFail == [ok |-> FALSE, v |-> <<>>, i |-> 0]

RECURSIVE SkipWs(_, _)
SkipWs(s, i) == IF i <= Len(s) /\ s[i] = " " THEN SkipWs(s, i + 1) ELSE i

\* the character at k of a string literal that starts at i is escaped: an odd
\* number of backslashes stands immediately before it
RECURSIVE Escaped(_, _, _)
Escaped(s, i, k) == k > i /\ s[k - 1] = BACKSLASH /\ ~Escaped(s, i, k - 1)

\* markers of CharAt: the character contributes nothing, the literal is no JSON
Skip == "skip"
Bad == "bad"

\* a variant of CharAt that keeps the backslash of an escape in the string
CharAt_keep(s, i, k) ==
  IF Escaped(s, i, k)
    THEN IF s[k] \in {QUOTE, BACKSLASH, "/"} THEN s[k]
         ELSE IF s[k] = "n" THEN NL
         ELSE Bad
  ELSE IF s[k] = NL THEN Bad
  ELSE s[k]

\* what the character at k of a string literal contributes to the string: itself, the
\* character an escape stands for, nothing (the backslash of an escape), or an error
CharAt(s, i, k) ==
  IF Escaped(s, i, k)
    THEN IF s[k] \in {QUOTE, BACKSLASH, "/"} THEN s[k]
         ELSE IF s[k] = "n" THEN NL
         ELSE Bad
  ELSE IF s[k] = BACKSLASH THEN Skip
  ELSE IF s[k] = NL THEN Bad
  ELSE s[k]

\* the characters of a string literal, i is the index after the opening quote
ParseChars(s, i) ==
  LET Q == {j \in i..Len(s) : s[j] = QUOTE /\ ~Escaped(s, i, j)} IN
    IF Q = {} THEN ParseFail
    ELSE LET q == Min(Q)
             cs == [k \in 1..(q - i) |-> CharAt(s, i, i + k - 1)]
         IN IF \E k \in 1..(q - i) : cs[k] = Bad THEN ParseFail
            ELSE [ok |-> TRUE, v |-> SelectSeq(cs, LAMBDA c : c # Skip), i |-> q + 1]

RECURSIVE ParseValue(_, _)
RECURSIVE ParseElements(_, _, _)
RECURSIVE ParseMembers(_, _, _)

\* the elements of an array after '[' or after a comma
ParseElements(s, i, acc) ==
  LET r == ParseValue(s, i) IN
    IF ~r.ok THEN ParseFail
    ELSE LET j == SkipWs(s, r.i) IN
      IF j > Len(s) THEN ParseFail
      ELSE IF s[j] = "," THEN ParseElements(s, j + 1, Append(acc, r.v))
      ELSE IF s[j] = "]"
        THEN [ok |-> TRUE, v |-> [t |-> "arr", v |-> Append(acc, r.v)], i |-> j + 1]
      ELSE ParseFail

\* the members of an object after '{' or after a comma
ParseMembers(s, i, acc) ==
  LET j == SkipWs(s, i) IN
    IF j > Len(s) \/ s[j] # QUOTE THEN ParseFail
    ELSE LET k == ParseChars(s, j + 1) IN
      IF ~k.ok THEN ParseFail
      ELSE LET c == SkipWs(s, k.i) IN
        IF c > Len(s) \/ s[c] # ":" THEN ParseFail
        ELSE LET r == ParseValue(s, c + 1) IN
          IF ~r.ok THEN ParseFail
          ELSE LET e == SkipWs(s, r.i)
                   m == Append(acc, [k |-> k.v, v |-> r.v]) IN
            IF e > Len(s) THEN ParseFail
            ELSE IF s[e] = "," THEN ParseMembers(s, e + 1, m)
            ELSE IF s[e] = "}"
              THEN [ok |-> TRUE, v |-> [t |-> "obj", v |-> m], i |-> e + 1]
            ELSE ParseFail

ParseValue(s, i) ==
  LET j == SkipWs(s, i) IN
    IF j > Len(s) THEN ParseFail
    ELSE IF s[j] = QUOTE
      THEN LET r == ParseChars(s, j + 1) IN
        IF r.ok THEN [ok |-> TRUE, v |-> [t |-> "str", v |-> r.v], i |-> r.i]
        ELSE ParseFail
    ELSE IF s[j] = "["
      THEN LET c == SkipWs(s, j + 1) IN
        IF c <= Len(s) /\ s[c] = "]"
          THEN [ok |-> TRUE, v |-> [t |-> "arr", v |-> <<>>], i |-> c + 1]
          ELSE ParseElements(s, j + 1, <<>>)
    ELSE IF s[j] = "{"
      THEN LET c == SkipWs(s, j + 1) IN
        IF c <= Len(s) /\ s[c] = "}"
          THEN [ok |-> TRUE, v |-> [t |-> "obj", v |-> <<>>], i |-> c + 1]
          ELSE ParseMembers(s, j + 1, <<>>)
    ELSE ParseFail

\* JSON.parse(s): [ok |-> FALSE] stands for the SyntaxError it throws
JSONParseText(s) ==
  LET r == ParseValue(s, 1) IN
    IF r.ok /\ SkipWs(s, r.i) = Len(s) + 1 THEN [ok |-> TRUE, v |-> r.v]
    ELSE [ok |-> FALSE, v |-> <<>>]

\* data[key] of a parsed value: the last member with that key, None when absent
RECURSIVE LookupFrom(_, _, _)
LookupFrom(ms, key, n) ==
  IF n = 0 THEN None
  ELSE IF ms[n].k = key THEN Some(ms[n].v)
  ELSE LookupFrom(ms, key, n - 1)

Prop(data, key) == IF data.t = "obj" THEN LookupFrom(data.v, key, Len(data.v)) ELSE None

\* the property as a string, None when it is absent or not a string
StrProp(data, key) ==
  LET p == Prop(data, key) IN
    IF p # None /\ p[1].t = "str" THEN Some(p[1].v) ELSE None

(***************************************************************************)
(* TextDecoder.decode(value, {stream: true}) for UTF-8.  The wire carries  *)
(* bytes: an ASCII byte is its character, B_C3 B_A9 are the two bytes of   *)
(* U+00E9, which decodes to the one character C_E9.  A lead byte at the    *)
(* end of a chunk is held back until the next chunk.                       *)
(***************************************************************************)
B_C3 == "#C3"
B_A9 == "#A9"
C_E9 == "U+00E9"
C_FFFD == "U+FFFD"

\* what the byte at i contributes to the decoded text
DecodeAt(bs, i) ==
  IF bs[i] = B_C3
    THEN IF i = Len(bs) THEN Skip
         ELSE IF bs[i + 1] = B_A9 THEN C_E9
         ELSE C_FFFD
  ELSE IF bs[i] = B_A9
    THEN IF i > 1 /\ bs[i - 1] = B_C3 THEN Skip ELSE C_FFFD
  ELSE bs[i]

\* decode(value, {stream: true}) with the bytes held from the chunk before; bytes
\* that are all ASCII decode to themselves
TextDecode(held, value) ==
  LET bs == held \o value IN
    IF \A i \in 1..Len(bs) : bs[i] \notin {B_C3, B_A9} THEN [text |-> bs, held |-> <<>>]
    ELSE [text |-> SelectSeq([i \in 1..Len(bs) |-> DecodeAt(bs, i)], LAMBDA c : c # Skip),
          held |-> IF bs[Len(bs)] = B_C3 THEN <<B_C3>> ELSE <<>>]

(***************************************************************************)
(* What the server and the user can send: frames of the wire protocol,     *)
(* conversation ids, user texts.                                           *)
(***************************************************************************)
\* data: {'type':'id','conversation_id':'c1'}
Frame_id ==
  <<"d","a","t","a",":"," ","{","\"","t","y","p","e","\"",":","\"","i","d","\"",",","\"","c",
    "o","n","v","e","r","s","a","t","i","o","n","_","i","d","\"",":","\"","c","1","\"","}">>
\* data: {'type':'chunk','chunk':'Hello'}
Frame_chunk ==
  <<"d","a","t","a",":"," ","{","\"","t","y","p","e","\"",":","\"","c","h","u","n","k","\"",",",
    "\"","c","h","u","n","k","\"",":","\"","H","e","l","l","o","\"","}">>
\* data: {'type':'chunk','chunk':'[Log in](https://shopify.com/authentication/1)'}
Frame_chunk_link ==
  <<"d","a","t","a",":"," ","{","\"","t","y","p","e","\"",":","\"","c","h","u","n","k","\"",",",
    "\"","c","h","u","n","k","\"",":","\"","[","L","o","g"," ","i","n","]","(","h","t","t","p",
    "s",":","/","/","s","h","o","p","i","f","y",".","c","o","m","/","a","u","t","h","e","n","t",
    "i","c","a","t","i","o","n","/","1",")","\"","}">>
\* data: {'type':'message_complete'}
Frame_message_complete ==
  <<"d","a","t","a",":"," ","{","\"","t","y","p","e","\"",":","\"","m","e","s","s","a","g","e",
    "_","c","o","m","p","l","e","t","e","\"","}">>
\* data: {'type':'end_turn'}
Frame_end_turn ==
  <<"d","a","t","a",":"," ","{","\"","t","y","p","e","\"",":","\"","e","n","d","_","t","u","r",
    "n","\"","}">>
\* data: {'type':'error','error':'boom'}
Frame_error ==
  <<"d","a","t","a",":"," ","{","\"","t","y","p","e","\"",":","\"","e","r","r","o","r","\"",",",
    "\"","e","r","r","o","r","\"",":","\"","b","o","o","m","\"","}">>
\* data: {'type':'rate_limit_exceeded','error':'slow'}
Frame_rate_limit ==
  <<"d","a","t","a",":"," ","{","\"","t","y","p","e","\"",":","\"","r","a","t","e","_","l","i",
    "m","i","t","_","e","x","c","e","e","d","e","d","\"",",","\"","e","r","r","o","r","\"",":",
    "\"","s","l","o","w","\"","}">>
\* data: {'type':'auth_required'}
Frame_auth_required ==
  <<"d","a","t","a",":"," ","{","\"","t","y","p","e","\"",":","\"","a","u","t","h","_","r","e",
    "q","u","i","r","e","d","\"","}">>
\* data: {'type':'product_results','products':[{'title':'Shoe'}]}
Frame_products ==
  <<"d","a","t","a",":"," ","{","\"","t","y","p","e","\"",":","\"","p","r","o","d","u","c","t",
    "_","r","e","s","u","l","t","s","\"",",","\"","p","r","o","d","u","c","t","s","\"",":","[",
    "{","\"","t","i","t","l","e","\"",":","\"","S","h","o","e","\"","}","]","}">>
\* data: {'type':'tool_use','tool_use_message':'Calling tool: search_products with arguments: {\'q\':\'shoes\'}'}
Frame_tool_use ==
  <<"d","a","t","a",":"," ","{","\"","t","y","p","e","\"",":","\"","t","o","o","l","_","u","s",
    "e","\"",",","\"","t","o","o","l","_","u","s","e","_","m","e","s","s","a","g","e","\"",":",
    "\"","C","a","l","l","i","n","g"," ","t","o","o","l",":"," ","s","e","a","r","c","h","_",
    "p","r","o","d","u","c","t","s"," ","w","i","t","h"," ","a","r","g","u","m","e","n","t","s",
    ":"," ","{","\\","\"","q","\\","\"",":","\\","\"","s","h","o","e","s","\\","\"","}","\"","}">>
\* data: {'type':'tool_use','tool_use_message':'Searching'}
Frame_tool_opaque ==
  <<"d","a","t","a",":"," ","{","\"","t","y","p","e","\"",":","\"","t","o","o","l","_","u","s",
    "e","\"",",","\"","t","o","o","l","_","u","s","e","_","m","e","s","s","a","g","e","\"",":",
    "\"","S","e","a","r","c","h","i","n","g","\"","}">>
\* data: {'type':'new_message'}
Frame_new_message ==
  <<"d","a","t","a",":"," ","{","\"","t","y","p","e","\"",":","\"","n","e","w","_","m","e","s",
    "s","a","g","e","\"","}">>
\* data: {'type':'content_block_complete'}
Frame_content_block_complete ==
  <<"d","a","t","a",":"," ","{","\"","t","y","p","e","\"",":","\"","c","o","n","t","e","n","t",
    "_","b","l","o","c","k","_","c","o","m","p","l","e","t","e","\"","}">>
\* data: {'type':'ping'}
Frame_unknown ==
  <<"d","a","t","a",":"," ","{","\"","t","y","p","e","\"",":","\"","p","i","n","g","\"","}">>
\* data: {'type':'chunk'
Frame_malformed ==
  <<"d","a","t","a",":"," ","{","\"","t","y","p","e","\"",":","\"","c","h","u","n","k","\"">>
\* : ping
Frame_nondata == <<":"," ","p","i","n","g">>
\* 
Frame_empty == <<>>
\* c1
Text_c1 == <<"c","1">>
\* Hello
Text_Hello == <<"H","e","l","l","o">>
\* ping
Text_ping == <<"p","i","n","g">>
\* [Log in](https://shopify.com/authentication/1)
Text_link ==
  <<"[","L","o","g"," ","i","n","]","(","h","t","t","p","s",":","/","/","s","h","o","p","i","f",
    "y",".","c","o","m","/","a","u","t","h","e","n","t","i","c","a","t","i","o","n","/","1",")">>
\* Hi there! How can I help you today?
Msg_Welcome ==
  <<"H","i"," ","t","h","e","r","e","!"," ","H","o","w"," ","c","a","n"," ","I"," ","h","e","l",
    "p"," ","y","o","u"," ","t","o","d","a","y","?">>
\* shoes
UserText_a == <<"s","h","o","e","s">>
\* order
UserText_b == <<"o","r","d","e","r">>
\* data: {'<U+00E9> : a payload that is no JSON, its last character as two UTF-8 bytes
Frame_malformed_utf8 == <<"d","a","t","a",":"," ","{","\"",B_C3,B_A9>>
\* data: {'type':'id','conversation_id':'c2'}
Frame_id_c2 ==
  <<"d","a","t","a",":"," ","{","\"","t","y","p","e","\"",":","\"","i","d","\"",",","\"","c",
    "o","n","v","e","r","s","a","t","i","o","n","_","i","d","\"",":","\"","c","2","\"","}">>
\* c2
Text_c2 == <<"c","2">>
\* Loading conversation history...
Msg_Loading ==
  <<"L","o","a","d","i","n","g"," ","c","o","n","v","e","r","s","a","t","i","o","n"," ","h","i",
    "s","t","o","r","y",".",".",".">>
\* text
K_text == <<"t","e","x","t">>
\* [{'type':'tool_use'},{'type':'text','text':'Hello'}] : a stored assistant message
Content_blocks ==
  <<"[","{","\"","t","y","p","e","\"",":","\"","t","o","o","l","_","u","s","e","\"","}",",","{",
    "\"","t","y","p","e","\"",":","\"","t","e","x","t","\"",",","\"","t","e","x","t","\"",":",
    "\"","H","e","l","l","o","\"","}","]">>
\* {'text':'Hello'} : stored content that parses to a value that is no list
Content_object == <<"{","\"","t","e","x","t","\"",":","\"","H","e","l","l","o","\"","}">>
\* data: {'type':'id','conversation_id':'c3'}
Frame_id_c3 ==
  <<"d","a","t","a",":"," ","{","\"","t","y","p","e","\"",":","\"","i","d","\"",",","\"","c",
    "o","n","v","e","r","s","a","t","i","o","n","_","i","d","\"",":","\"","c","3","\"","}">>
\* c3
Text_c3 == <<"c","3">>
\* socks
UserText_c == <<"s","o","c","k","s">>
\* data: {'type':'tool_use'} : a tool_use event without a message
Frame_tool_bare ==
  <<"d","a","t","a",":"," ","{","\"","t","y","p","e","\"",":","\"","t","o","o","l","_","u","s",
    "e","\"","}">>
\* data: {'type':'chunk','chunk':'a\"<U+00E9>\n\n\\'}: a chunk whose text has the escapes of
\* a quote, of two newlines and of a backslash, and a character of two UTF-8 bytes
Frame_chunk_esc ==
  <<"d","a","t","a",":"," ","{","\"","t","y","p","e","\"",":","\"","c","h","u","n","k","\"",",",
    "\"","c","h","u","n","k","\"",":","\"","a","\\","\"",B_C3,B_A9,"\\","n","\\","n","\\","\\",
    "\"","}">>
\* a"<U+00E9>, two newlines, a backslash
Text_esc == <<"a", "\"", C_E9, NL, NL, "\\">>
\* data:{"type":"chunk","chunk":"Hello"}
Frame_nospace ==
  <<"d","a","t","a",":","{","\"","t","y","p","e","\"",":","\"","c","h","u","n","k","\"",",",
    "\"","c","h","u","n","k","\"",":","\"","H","e","l","l","o","\"","}">>
\* Data: {"type":"chunk","chunk":"Hello"}
Frame_upper ==
  <<"D","a","t","a",":"," ","{","\"","t","y","p","e","\"",":","\"","c","h","u","n","k","\"",",",
    "\"","c","h","u","n","k","\"",":","\"","H","e","l","l","o","\"","}">>

FrameKinds ==
  {"id", "id_c2", "id_c3", "chunk", "chunk_link", "chunk_esc", "malformed_utf8", "message_complete", "end_turn", "error",
   "rate_limit", "auth_required", "products", "tool_use", "tool_opaque", "tool_bare", "new_message",
   "content_block_complete", "unknown", "malformed", "nondata", "empty", "nospace", "upper"}

\* the frame (without its delimiter) the server writes for each kind of test frame
FrameBytes(k) ==
  CASE k = "id" -> Frame_id
    [] k = "id_c2" -> Frame_id_c2
    [] k = "id_c3" -> Frame_id_c3
    [] k = "chunk" -> Frame_chunk
    [] k = "chunk_link" -> Frame_chunk_link
    [] k = "chunk_esc" -> Frame_chunk_esc
    [] k = "malformed_utf8" -> Frame_malformed_utf8
    [] k = "message_complete" -> Frame_message_complete
    [] k = "end_turn" -> Frame_end_turn
    [] k = "error" -> Frame_error
    [] k = "rate_limit" -> Frame_rate_limit
    [] k = "auth_required" -> Frame_auth_required
    [] k = "products" -> Frame_products
    [] k = "tool_use" -> Frame_tool_use
    [] k = "tool_opaque" -> Frame_tool_opaque
    [] k = "tool_bare" -> Frame_tool_bare
    [] k = "new_message" -> Frame_new_message
    [] k = "content_block_complete" -> Frame_content_block_complete
    [] k = "unknown" -> Frame_unknown
    [] k = "malformed" -> Frame_malformed
    [] k = "nondata" -> Frame_nondata
    [] k = "empty" -> Frame_empty
    [] k = "nospace" -> Frame_nospace
    [] k = "upper" -> Frame_upper

\* JSON.parse(s)
JSONParse(s) == JSONParseText(s)

(***************************************************************************)
(* The DOM of the messages container.  An element is                       *)
(* [cls, raw, fmt, text, tool]: its class, dataset.rawText, whether its    *)
(* content is plain text ("text"), rendered markup ("html") or a tool-use  *)
(* item ("tool-json", "tool-raw"), the content, and the tool name.         *)
(* Typing indicators are counted, not placed.                              *)
(***************************************************************************)
Element(cls, raw, fmt, text) ==
  [cls |-> cls, raw |-> raw, fmt |-> fmt, text |-> text, tool |-> <<>>]

\* document.createElement('div') with class shop-ai-message assistant, empty text
NewAssistantElement == Element("assistant", <<>>, "text", <<>>)

\* UI.removeTypingIndicator: removes the first indicator, if any
RemoveTypingIndicator(n) == IF n > 0 THEN n - 1 ELSE 0

\* UI.showTypingIndicator: appends one more indicator
ShowTypingIndicator(n) == n + 1

\* [^\]]+ or [^)]+ : a non-empty stretch of s from a to b without the character c
NoneOf(s, a, b, c) == a <= b /\ \A i \in a..b : s[i] # c

\* the markdown link regex of formatMessageContent matches with an auth url:
\* '[' text ']' '(' url ')' with url.includes('shopify.com/authentication')
HasAuthLink(raw) ==
  \E a \in {i \in 1..Len(raw) : raw[i] = "["} :
    \E b \in {i \in (a + 2)..(Len(raw) - 1) : raw[i] = "]" /\ raw[i + 1] = "("} :
      \E c \in {i \in (b + 3)..Len(raw) : raw[i] = ")"} :
        /\ NoneOf(raw, a + 1, b - 1, "]")
        /\ NoneOf(raw, b + 2, c - 1, ")")
        /\ Includes(SubSeq(raw, b + 2, c - 1), Str_AuthHost)

\* Formatting.formatMessageContent(element): nothing when rawText is empty,
\* else the content becomes the markup rendered from rawText
FormatMessageContent(el) ==
  IF el.raw = <<>> THEN el
  ELSE [el EXCEPT !.fmt = "html", !.text = el.raw]

\* Message.add(text, sender, container): the element it appends
MessageAdd(text, sender) ==
  IF sender = "assistant"
    THEN FormatMessageContent(Element("assistant", text, "text", <<>>))
    ELSE Element(sender, <<>>, "text", text)

\* \w of the tool-use regex
WordChars ==
  {"a","b","c","d","e","f","g","h","i","j","k","l","m","n","o","p","q","r","s","t","u",
   "v","w","x","y","z","A","B","C","D","E","F","G","H","I","J","K","L","M","N","O","P",
   "Q","R","S","T","U","V","W","X","Y","Z","0","1","2","3","4","5","6","7","8","9","_"}

\* the end of the longest run of word characters starting at i (i - 1 when none)
WordEnd(s, i) == Min({j \in i..(Len(s) + 1) : j = Len(s) + 1 \/ s[j] \notin WordChars}) - 1

\* the end of the longest run of characters other than newline starting at i
LineEnd(s, i) == Min({j \in i..(Len(s) + 1) : j = Len(s) + 1 \/ s[j] = NL}) - 1

\* toolMessage.match(/Calling tool: (\w+) with arguments: (.+)/) tried at index p
ToolMatchAt(s, p) ==
  LET n == p + Len(Str_CallingTool)
      e == WordEnd(s, n)
      a == e + 1 + Len(Str_WithArguments)
      z == LineEnd(s, a)
  IN IF MatchAt(s, p, Str_CallingTool) /\ e >= n /\ MatchAt(s, e + 1, Str_WithArguments) /\ z >= a
       THEN Some([name |-> SubSeq(s, n, e), args |-> SubSeq(s, a, z)])
       ELSE None

\* the leftmost match, None when the regex does not match
ToolMatch(s) ==
  LET P == {p \in 1..Len(s) : ToolMatchAt(s, p) # None} IN
    IF P = {} THEN None ELSE ToolMatchAt(s, Min(P))

\* a variant of AddToolUse that shows every message as it is
AddToolUse_opaque(toolMessage) == Element("tool-use", <<>>, "text", toolMessage)

\* Message.addToolUse(toolMessage, container): the element it appends
AddToolUse(toolMessage) ==
  LET m == ToolMatch(toolMessage) IN
    IF m = None THEN Element("tool-use", <<>>, "text", toolMessage)
    ELSE [cls |-> "tool-use", raw |-> <<>>,
          fmt |-> IF JSONParse(m[1].args).ok THEN "tool-json" ELSE "tool-raw",
          text |-> m[1].args, tool |-> m[1].name]

\* UI.displayProductResults(products): the product section it appends
DisplayProductResults(products) ==
  Element("product-section", <<>>,
          IF products # None /\ products[1].t = "arr" /\ products[1].v # <<>>
            THEN "grid" ELSE "empty",
          <<>>)

\* JavaScript string concatenation s + v of a property that may be undefined
Concat(s, v) == IF v = None THEN s \o Str_undefined ELSE s \o v[1]

(***************************************************************************)
(* API.handleStreamEvent(data, currentMessageElement, ..., userMessage,    *)
(* updateCurrentElement) on the part of the state it reads and writes:     *)
(* w = [conv, last, elems, typing, authUrl, cur].  conv and last are the   *)
(* sessionStorage items shopAiConversationId and shopAiLastMessage, cur is *)
(* the index of the stream's currentMessageElement in elems.               *)
(***************************************************************************)
\* formatMessageContent on the current element, with its window.shopAuthUrl effect
FormatCurrent(w) ==
  [w EXCEPT !.elems[w.cur] = FormatMessageContent(@),
            !.authUrl = @ \/ HasAuthLink(w.elems[w.cur].raw)]

OnId(data, w) ==
  LET c == StrProp(data, K_conversation_id) IN
    IF c # None /\ c[1] # <<>> THEN [w EXCEPT !.conv = c] ELSE w

\* a variant of OnChunk that sets rawText to the chunk instead of appending it
OnChunk_replace(data, w) ==
  LET raw == Concat(<<>>, StrProp(data, K_chunk)) IN
    [w EXCEPT !.typing = RemoveTypingIndicator(@),
              !.elems[w.cur].raw = raw,
              !.elems[w.cur].fmt = "text",
              !.elems[w.cur].text = raw]

OnChunk(data, w) ==
  LET raw == Concat(w.elems[w.cur].raw, StrProp(data, K_chunk)) IN
    [w EXCEPT !.typing = RemoveTypingIndicator(@),
              !.elems[w.cur].raw = raw,
              !.elems[w.cur].fmt = "text",
              !.elems[w.cur].text = raw]

OnMessageComplete(data, w) ==
  FormatCurrent([w EXCEPT !.typing = RemoveTypingIndicator(@)])

OnEndTurn(data, w) == [w EXCEPT !.typing = RemoveTypingIndicator(@)]

OnError(data, w) ==
  [w EXCEPT !.typing = RemoveTypingIndicator(@),
            !.elems[w.cur].fmt = "text",
            !.elems[w.cur].text = Msg_StreamError]

OnRateLimitExceeded(data, w) ==
  [w EXCEPT !.typing = RemoveTypingIndicator(@),
            !.elems[w.cur].fmt = "text",
            !.elems[w.cur].text = Msg_RateLimit]

\* a variant of OnAuthRequired that keeps a message that is already pending
OnAuthRequired_first(data, w, userMessage) ==
  IF w.last # None THEN w ELSE [w EXCEPT !.last = Some(userMessage)]

\* sessionStorage.setItem('shopAiLastMessage', userMessage || '')
OnAuthRequired(data, w, userMessage) == [w EXCEPT !.last = Some(userMessage)]

\* a variant of OnProductResults that shows the product section in place of the
\* current message
OnProductResults_inline(data, w) ==
  [w EXCEPT !.elems[w.cur] = DisplayProductResults(Prop(data, K_products))]

OnProductResults(data, w) ==
  [w EXCEPT !.elems = Append(@, DisplayProductResults(Prop(data, K_products)))]

OnToolUse(data, w) ==
  LET m == StrProp(data, K_tool_use_message) IN
    IF m # None /\ m[1] # <<>> THEN [w EXCEPT !.elems = Append(@, AddToolUse(m[1]))]
    ELSE w

\* a variant of OnNewMessage that appends the new element and leaves the stream's
\* current element as it was
OnNewMessage_keep(data, w) ==
  LET f == FormatCurrent(w) IN
    [f EXCEPT !.typing = ShowTypingIndicator(@),
              !.elems = Append(@, NewAssistantElement)]

OnNewMessage(data, w) ==
  LET f == FormatCurrent(w) IN
    [f EXCEPT !.typing = ShowTypingIndicator(@),
              !.elems = Append(@, NewAssistantElement),
              !.cur = Len(f.elems) + 1]

OnContentBlockComplete(data, w) == [w EXCEPT !.typing = ShowTypingIndicator(@)]

\* a variant of HandleStreamEvent that handles an event of another type as an error
HandleStreamEvent_default(data, w, userMessage) ==
  LET type == StrProp(data, K_type) IN
    IF type = None THEN w
    ELSE IF type[1] = T_id THEN OnId(data, w)
    ELSE IF type[1] = T_chunk THEN OnChunk(data, w)
    ELSE IF type[1] = T_message_complete THEN OnMessageComplete(data, w)
    ELSE IF type[1] = T_end_turn THEN OnEndTurn(data, w)
    ELSE IF type[1] = T_error THEN OnError(data, w)
    ELSE IF type[1] = T_rate_limit_exceeded THEN OnRateLimitExceeded(data, w)
    ELSE IF type[1] = T_auth_required THEN OnAuthRequired(data, w, userMessage)
    ELSE IF type[1] = T_product_results THEN OnProductResults(data, w)
    ELSE IF type[1] = T_tool_use THEN OnToolUse(data, w)
    ELSE IF type[1] = T_new_message THEN OnNewMessage(data, w)
    ELSE IF type[1] = T_content_block_complete THEN OnContentBlockComplete(data, w)
    ELSE OnError(data, w)

HandleStreamEvent(data, w, userMessage) ==
  LET type == StrProp(data, K_type) IN
    IF type = None THEN w
    ELSE IF type[1] = T_id THEN OnId(data, w)
    ELSE IF type[1] = T_chunk THEN OnChunk(data, w)
    ELSE IF type[1] = T_message_complete THEN OnMessageComplete(data, w)
    ELSE IF type[1] = T_end_turn THEN OnEndTurn(data, w)
    ELSE IF type[1] = T_error THEN OnError(data, w)
    ELSE IF type[1] = T_rate_limit_exceeded THEN OnRateLimitExceeded(data, w)
    ELSE IF type[1] = T_auth_required THEN OnAuthRequired(data, w, userMessage)
    ELSE IF type[1] = T_product_results THEN OnProductResults(data, w)
    ELSE IF type[1] = T_tool_use THEN OnToolUse(data, w)
    ELSE IF type[1] = T_new_message THEN OnNewMessage(data, w)
    ELSE IF type[1] = T_content_block_complete THEN OnContentBlockComplete(data, w)
    ELSE w

Delimiter == <<NL, NL>>

\* frames of a stream whose bytes are cut anywhere
DecodeKinds == {"chunk", "end_turn", "malformed_utf8", "empty"}

\* frames of one turn, each read whole
TurnKinds ==
  {"id", "chunk", "message_complete", "end_turn", "error", "rate_limit", "auth_required",
   "products", "tool_use", "tool_opaque", "tool_bare", "new_message",
   "content_block_complete", "unknown", "malformed", "nondata"}

\* what the server may leave unterminated when it closes the stream
Partials == {<<>>, Frame_end_turn, Frame_malformed \o <<NL>>}

UserTexts == {UserText_a, UserText_b}

\* what the server answers in a session: a turn that needs authorization (the id, a
\* message with the auth link, auth_required) and a turn that does not
AuthScript == <<"id", "auth_required", "chunk_link", "message_complete">>
PlainScript == <<"chunk", "end_turn">>

\* bounds of the model
MaxFrames == 2
MaxTurnFrames == 3
MaxPolls == 2
MaxQueries == 2
MaxSessions == 1
MaxCalls == 2

\* const maxAttempts = 30
maxAttempts == 30

\* all sequences over S of length at most n
RECURSIVE SeqsUpTo(_, _)
SeqsUpTo(S, n) ==
  IF n = 0 THEN {<<>>}
  ELSE LET R == SeqsUpTo(S, n - 1) IN R \cup {Append(r, x) : r \in {q \in R : Len(q) = n - 1}, x \in S}

\* the bytes of the frames ks, each followed by the delimiter
RECURSIVE WireOf(_)
WireOf(ks) == IF ks = <<>> THEN <<>> ELSE FrameBytes(Head(ks)) \o Delimiter \o WireOf(Tail(ks))

(***************************************************************************)
(* State.                                                                  *)
(*   storage   sessionStorage: conv = shopAiConversationId,                *)
(*             last = shopAiLastMessage, poll = shopAiTokenPollingId       *)
(*   elems     the children of the messages container, in document order   *)
(*   typing    the number of typing indicators in the container            *)
(*   authUrl   window.shopAuthUrl is set (an auth link has been rendered)  *)
(*   streams   the calls of streamResponse, running or finished            *)
(*   pollers   the calls of startTokenPolling: their closures              *)
(*   timers    the pending setTimeout(..., 500) replays of the poller      *)
(*   now       the last value Date.now() returned                          *)
(***************************************************************************)
VARIABLES storage, elems, typing, authUrl, streams, pollers, timers, now

vars == <<storage, elems, typing, authUrl, streams, pollers, timers, now>>

\* ShopAIChat.init in a fresh tab: no stored conversation, the welcome message
Init ==
  /\ storage = [conv |-> None, last |-> None, poll |-> None]
  /\ elems = <<MessageAdd(Msg_Welcome, "assistant")>>
  /\ typing = 0
  /\ authUrl = FALSE
  /\ streams = <<>>
  /\ pollers = <<>>
  /\ timers = <<>>
  /\ now = 0

\* a call of streamResponse(userMessage, conversationId, container) up to its fetch
NewStream(userMessage, conversationId, origin) ==
  [msg |-> userMessage, cid |-> conversationId, origin |-> origin, pc |-> "fetch",
   sent |-> <<>>, tail |-> <<>>, closed |-> FALSE, wire |-> <<>>,
   held |-> <<>>, buffer |-> <<>>, cur |-> 0, emitted |-> <<>>, log |-> <<>>]

\* the user has submitted this text before
Sent(text) == \E i \in 1..Len(streams) : streams[i].origin = "user" /\ streams[i].msg = text

\* a variant of Send that posts the message twice
Send_twice(text) ==
  /\ ~Sent(text)
  /\ elems' = Append(elems, MessageAdd(text, "user"))
  /\ typing' = ShowTypingIndicator(typing)
  /\ streams' = streams \o <<NewStream(text, storage.conv, "user"),
                              NewStream(text, storage.conv, "user")>>
  /\ UNCHANGED <<storage, authUrl, pollers, timers, now>>

\* Message.send: the user submits text (the listeners pass only non-empty text);
\* in the model a text is submitted once
Send(text) ==
  /\ ~Sent(text)
  /\ elems' = Append(elems, MessageAdd(text, "user"))
  /\ typing' = ShowTypingIndicator(typing)
  /\ streams' = Append(streams, NewStream(text, storage.conv, "user"))
  /\ UNCHANGED <<storage, authUrl, pollers, timers, now>>

\* streamResponse after its fetch resolved: the initial message element
FetchResolve(s) ==
  /\ streams[s].pc = "fetch"
  /\ elems' = Append(elems, NewAssistantElement)
  /\ streams' = [streams EXCEPT ![s].pc = "read", ![s].cur = Len(elems) + 1]
  /\ UNCHANGED <<storage, typing, authUrl, pollers, timers, now>>

(***************************************************************************)
(* The body of the read loop for one chunk: the for loop over the complete *)
(* lines.  d = [w, emitted, log] is the dispatcher state w with the        *)
(* stream's history: the lines the split produced and the type of every    *)
(* event handed to handleStreamEvent.                                       *)
(***************************************************************************)
\* a variant of ProcessLine that does not dispatch product_results events
ProcessLine_skip(line, d, userMessage) ==
  LET e == [d EXCEPT !.emitted = Append(@, line)] IN
    IF StartsWith(line, Prefix_data)
      THEN LET data == JSONParse(Slice(line, 6)) IN
        IF data.ok /\ StrProp(data.v, K_type) # Some(T_product_results)
          THEN [e EXCEPT !.w = HandleStreamEvent(data.v, d.w, userMessage),
                         !.log = Append(@, StrProp(data.v, K_type))]
          ELSE e
      ELSE e

\* a variant of ProcessLine that treats a payload that fails to parse as the end of
\* the turn: the typing indicator is removed and the error message is shown
ProcessLine_giveup(line, d, userMessage) ==
  LET e == [d EXCEPT !.emitted = Append(@, line)] IN
    IF StartsWith(line, Prefix_data)
      THEN LET data == JSONParse(Slice(line, 6)) IN
        IF data.ok
          THEN [e EXCEPT !.w = HandleStreamEvent(data.v, d.w, userMessage),
                         !.log = Append(@, StrProp(data.v, K_type))]
          ELSE [e EXCEPT !.w.typing = RemoveTypingIndicator(@),
                         !.w.elems = Append(@, MessageAdd(Msg_StreamError, "assistant"))]
      ELSE e

\* a variant of ProcessLine that stops dispatching once auth_required was dispatched
ProcessLine_authstop(line, d, userMessage) ==
  LET e == [d EXCEPT !.emitted = Append(@, line)] IN
    IF StartsWith(line, Prefix_data)
         /\ ~\E i \in 1..Len(d.log) : d.log[i] = Some(T_auth_required)
      THEN LET data == JSONParse(Slice(line, 6)) IN
        IF data.ok
          THEN [e EXCEPT !.w = HandleStreamEvent(data.v, d.w, userMessage),
                         !.log = Append(@, StrProp(data.v, K_type))]
          ELSE e
      ELSE e

\* a variant of ProcessLine that takes what follows the first six characters of
\* every line as the payload
ProcessLine_anyprefix(line, d, userMessage) ==
  LET e == [d EXCEPT !.emitted = Append(@, line)] IN
    IF Len(line) >= 6
      THEN LET data == JSONParse(Slice(line, 6)) IN
        IF data.ok
          THEN [e EXCEPT !.w = HandleStreamEvent(data.v, d.w, userMessage),
                         !.log = Append(@, StrProp(data.v, K_type))]
          ELSE e
      ELSE e

ProcessLine(line, d, userMessage) ==
  LET e == [d EXCEPT !.emitted = Append(@, line)] IN
    IF StartsWith(line, Prefix_data)
      THEN LET data == JSONParse(Slice(line, 6)) IN
        IF data.ok
          THEN [e EXCEPT !.w = HandleStreamEvent(data.v, d.w, userMessage),
                         !.log = Append(@, StrProp(data.v, K_type))]
          ELSE e
      ELSE e

RECURSIVE ProcessLines(_, _, _)
ProcessLines(lines, d, userMessage) ==
  IF lines = <<>> THEN d
  ELSE ProcessLines(Tail(lines), ProcessLine(Head(lines), d, userMessage), userMessage)

\* a variant of ReadChunk that splits each chunk alone, without the buffer carried
\* over from the reads before
ReadChunk_forget(st, n, w) ==
  LET dec == TextDecode(st.held, SubSeq(st.wire, 1, n))
      lines == SplitFrames(dec.text)
      d == ProcessLines(SubSeq(lines, 1, Len(lines) - 1),
                        [w |-> w, emitted |-> st.emitted, log |-> st.log], st.msg)
  IN [st |-> [st EXCEPT !.wire = SubSeq(@, n + 1, Len(@)),
                        !.held = dec.held,
                        !.buffer = lines[Len(lines)],
                        !.cur = d.w.cur,
                        !.emitted = d.emitted,
                        !.log = d.log],
      w |-> d.w]

\* the chunk of the first n bytes of st.wire after decode, split and the loop over
\* the complete lines: the stream and the dispatcher state w after it
ReadChunk(st, n, w) ==
  LET dec == TextDecode(st.held, SubSeq(st.wire, 1, n))
      lines == SplitFrames(st.buffer \o dec.text)
      d == ProcessLines(SubSeq(lines, 1, Len(lines) - 1),
                        [w |-> w, emitted |-> st.emitted, log |-> st.log], st.msg)
  IN [st |-> [st EXCEPT !.wire = SubSeq(@, n + 1, Len(@)),
                        !.held = dec.held,
                        !.buffer = lines[Len(lines)],
                        !.cur = d.w.cur,
                        !.emitted = d.emitted,
                        !.log = d.log],
      w |-> d.w]

\* one iteration of the read loop of stream s, whose record is st when
\* reader.read() returns the next n bytes
ReadLoop(s, st, n) ==
  \E r \in {ReadChunk(st, n, [conv |-> storage.conv, last |-> storage.last, elems |-> elems,
                               typing |-> typing, authUrl |-> authUrl, cur |-> st.cur])} :
    /\ streams' = [streams EXCEPT ![s] = r.st]
    /\ storage' = [storage EXCEPT !.conv = r.w.conv, !.last = r.w.last]
    /\ elems' = r.w.elems
    /\ typing' = r.w.typing
    /\ authUrl' = r.w.authUrl
    /\ UNCHANGED <<pollers, timers, now>>

\* the server writes the frames ks, then the unterminated text tail, and closes
ServerWriteAll(s, ks, tail) ==
  /\ streams[s].pc = "read"
  /\ streams[s].sent = <<>> /\ ~streams[s].closed
  /\ streams' = [streams EXCEPT ![s].sent = ks, ![s].tail = tail, ![s].closed = TRUE,
                                ![s].wire = WireOf(ks) \o tail]
  /\ UNCHANGED <<storage, elems, typing, authUrl, pollers, timers, now>>

\* reader.read() returns the next n bytes of what the server wrote
Read(s, n) ==
  /\ streams[s].pc = "read"
  /\ n \in 1..Len(streams[s].wire)
  /\ ReadLoop(s, streams[s], n)

\* a variant of ReadDone that handles what is left in the buffer as one more line
ReadDone_flush(s) ==
  /\ streams[s].pc = "read"
  /\ streams[s].closed /\ streams[s].wire = <<>>
  /\ \E d \in {ProcessLine(streams[s].buffer,
                            [w |-> [conv |-> storage.conv, last |-> storage.last,
                                    elems |-> elems, typing |-> typing, authUrl |-> authUrl,
                                    cur |-> streams[s].cur],
                             emitted |-> streams[s].emitted, log |-> streams[s].log],
                            streams[s].msg)} :
       /\ streams' = [streams EXCEPT ![s].pc = "done", ![s].buffer = <<>>,
                                     ![s].cur = d.w.cur, ![s].emitted = d.emitted,
                                     ![s].log = d.log]
       /\ storage' = [storage EXCEPT !.conv = d.w.conv, !.last = d.w.last]
       /\ elems' = d.w.elems
       /\ typing' = d.w.typing
       /\ authUrl' = d.w.authUrl
  /\ UNCHANGED <<pollers, timers, now>>

\* reader.read() returns done after the server closed: the loop ends, the buffer
\* is dropped
ReadDone(s) ==
  /\ streams[s].pc = "read"
  /\ streams[s].closed /\ streams[s].wire = <<>>
  /\ streams' = [streams EXCEPT ![s].pc = "done"]
  /\ UNCHANGED <<storage, elems, typing, authUrl, pollers, timers, now>>

\* the server writes the frame k and reader.read() returns it whole
Deliver(s, k) ==
  /\ streams[s].pc = "read"
  /\ ~streams[s].closed /\ streams[s].wire = <<>>
  /\ ReadLoop(s, [streams[s] EXCEPT !.sent = Append(@, k), !.wire = FrameBytes(k) \o Delimiter],
              Len(FrameBytes(k)) + 2)

\* the server closes the stream and reader.read() returns done
Close(s) ==
  /\ streams[s].pc = "read"
  /\ ~streams[s].closed /\ streams[s].wire = <<>>
  /\ streams' = [streams EXCEPT ![s].closed = TRUE, ![s].pc = "done"]
  /\ UNCHANGED <<storage, elems, typing, authUrl, pollers, timers, now>>

\* the stream st and the dispatcher state w after the frames ks were delivered,
\* each read whole
RECURSIVE DeliverAll(_, _, _)
DeliverAll(st, w, ks) ==
  IF ks = <<>> THEN [st |-> st, w |-> w]
  ELSE CHOOSE x \in
         {DeliverAll(r.st, r.w, Tail(ks)) :
            r \in {ReadChunk([st EXCEPT !.sent = Append(@, Head(ks)),
                                        !.wire = FrameBytes(Head(ks)) \o Delimiter],
                              Len(FrameBytes(Head(ks))) + 2, w)}} : TRUE

\* k is the next frame of one of the scripts for a stream that was sent the frames sent
Follows(scripts, sent, k) ==
  \E sc \in scripts : Len(sent) < Len(sc) /\ SubSeq(sc, 1, Len(sent) + 1) = Append(sent, k)

(***************************************************************************)
(* Auth.openAuthPopup and Auth.startTokenPolling.  A poller is the closure *)
(* of one startTokenPolling call: [id, cid, attempt, pc, why, queries].    *)
(* pc is "timer" while a setTimeout(poll, ...) is pending, "fetch" while   *)
(* the status query is awaited, "stopped" after poll returned without      *)
(* scheduling itself; queries counts the status queries it issued.         *)
(***************************************************************************)
\* 'polling_' + Date.now() for the clock value t
PollingId(t) == t

NewPoller(pollingId, conversationId) ==
  [id |-> pollingId, cid |-> conversationId, attempt |-> 0, pc |-> "timer",
   why |-> "", queries |-> 0]

\* a variant of OpenAuthPopup that does not need a rendered auth link
OpenAuthPopup_nolink(t, cap) ==
  /\ Len(pollers) < cap
  /\ t \in {now, now + 1}
  /\ storage.conv # None
  /\ elems' = Append(elems, MessageAdd(Msg_AuthInProgress, "assistant"))
  /\ storage' = [storage EXCEPT !.poll = Some(PollingId(t))]
  /\ pollers' = Append(pollers, NewPoller(PollingId(t), storage.conv[1]))
  /\ now' = t
  /\ UNCHANGED <<typing, authUrl, streams, timers>>

\* the user clicks a rendered auth link: openAuthPopup(window.shopAuthUrl), which
\* calls startTokenPolling when a conversation id is stored; t is Date.now(), cap
\* bounds the polling sessions of the model
OpenAuthPopup(t, cap) ==
  /\ authUrl
  /\ Len(pollers) < cap
  /\ t \in {now, now + 1}
  /\ storage.conv # None
  /\ elems' = Append(elems, MessageAdd(Msg_AuthInProgress, "assistant"))
  /\ storage' = [storage EXCEPT !.poll = Some(PollingId(t))]
  /\ pollers' = Append(pollers, NewPoller(PollingId(t), storage.conv[1]))
  /\ now' = t
  /\ UNCHANGED <<typing, authUrl, streams, timers>>

\* a variant of PollStep that does not count the attempt
PollStep_uncounted(p, pollingIdItem) ==
  IF pollingIdItem # Some(p.id) THEN [p EXCEPT !.pc = "stopped", !.why = "superseded"]
  ELSE IF p.attempt >= maxAttempts THEN [p EXCEPT !.pc = "stopped", !.why = "exhausted"]
  ELSE [p EXCEPT !.queries = IF @ < maxAttempts THEN @ + 1 ELSE @, !.pc = "fetch"]

\* a variant of PollStep whose attempt bound is checked with > for >=
PollStep_late(p, pollingIdItem) ==
  IF pollingIdItem # Some(p.id) THEN [p EXCEPT !.pc = "stopped", !.why = "superseded"]
  ELSE IF p.attempt > maxAttempts THEN [p EXCEPT !.pc = "stopped", !.why = "exhausted"]
  ELSE [p EXCEPT !.attempt = @ + 1, !.queries = @ + 1, !.pc = "fetch"]

\* poll() up to its fetch: the fence check, the attempt bound, attemptCount++
PollStep(p, pollingIdItem) ==
  IF pollingIdItem # Some(p.id) THEN [p EXCEPT !.pc = "stopped", !.why = "superseded"]
  ELSE IF p.attempt >= maxAttempts THEN [p EXCEPT !.pc = "stopped", !.why = "exhausted"]
  ELSE [p EXCEPT !.attempt = @ + 1, !.queries = @ + 1, !.pc = "fetch"]

\* a timer of poller i fires; cap bounds the queries of one poller in the model
PollTick(i, cap) ==
  /\ pollers[i].pc = "timer"
  /\ PollStep(pollers[i], storage.poll).pc = "fetch" => pollers[i].attempt < cap
  /\ pollers' = [pollers EXCEPT ![i] = PollStep(pollers[i], storage.poll)]
  /\ UNCHANGED <<storage, elems, typing, authUrl, streams, timers, now>>

\* a variant of PollAuthorized that leaves shopAiLastMessage in the storage
PollAuthorized_keep(i) ==
  LET message == storage.last
      replay == message # None /\ message[1] # <<>>
  IN /\ pollers[i].pc = "fetch"
     /\ storage' = [storage EXCEPT !.poll = None]
     /\ timers' = IF replay THEN Append(timers, [msg |-> message[1], cid |-> pollers[i].cid])
                  ELSE timers
     /\ pollers' = [pollers EXCEPT ![i].pc = "stopped", ![i].why = "authorized"]
     /\ UNCHANGED <<elems, typing, authUrl, streams, now>>

\* the status query of poller i answers 'authorized'
PollAuthorized(i) ==
  LET message == storage.last
      replay == message # None /\ message[1] # <<>>
  IN /\ pollers[i].pc = "fetch"
     /\ storage' = [storage EXCEPT !.last = IF replay THEN None ELSE @, !.poll = None]
     /\ timers' = IF replay THEN Append(timers, [msg |-> message[1], cid |-> pollers[i].cid])
                  ELSE timers
     /\ pollers' = [pollers EXCEPT ![i].pc = "stopped", ![i].why = "authorized"]
     /\ UNCHANGED <<elems, typing, authUrl, streams, now>>

\* a variant of PollFail that ends the session at the first failed query
PollFail_abort(i) ==
  /\ pollers[i].pc = "fetch"
  /\ pollers' = [pollers EXCEPT ![i].pc = "stopped", ![i].why = "failed"]
  /\ UNCHANGED <<storage, elems, typing, authUrl, streams, timers, now>>

\* the status query of poller i fails (the fetch rejects, the response is not ok or
\* its body is no JSON): the catch schedules the next poll in 10 s
PollFail(i) ==
  /\ pollers[i].pc = "fetch"
  /\ pollers' = [pollers EXCEPT ![i].pc = "timer"]
  /\ UNCHANGED <<storage, elems, typing, authUrl, streams, timers, now>>

\* a variant of PollRetry that replays the pending message on every answer
PollRetry_replay(i) ==
  /\ pollers[i].pc = "fetch"
  /\ pollers' = [pollers EXCEPT ![i].pc = "timer"]
  /\ timers' = IF storage.last # None
                 THEN Append(timers, [msg |-> storage.last[1], cid |-> pollers[i].cid])
                 ELSE timers
  /\ UNCHANGED <<storage, elems, typing, authUrl, streams, now>>

\* a variant of PollRetry that removes shopAiTokenPollingId before it polls again
PollRetry_clear(i) ==
  /\ pollers[i].pc = "fetch"
  /\ pollers' = [pollers EXCEPT ![i].pc = "timer"]
  /\ storage' = [storage EXCEPT !.poll = None]
  /\ UNCHANGED <<elems, typing, authUrl, streams, timers, now>>

\* the status query of poller i answers another status: poll again in 10 s
PollRetry(i) ==
  /\ pollers[i].pc = "fetch"
  /\ pollers' = [pollers EXCEPT ![i].pc = "timer"]
  /\ UNCHANGED <<storage, elems, typing, authUrl, streams, timers, now>>

\* the 500 ms timer of a successful poll fires: the replay
ReplayTimer ==
  /\ timers # <<>>
  /\ elems' = Append(elems, MessageAdd(Msg_AuthSuccess, "assistant"))
  /\ streams' = Append(streams, NewStream(Head(timers).msg, Some(Head(timers).cid), "replay"))
  /\ typing' = ShowTypingIndicator(typing)
  /\ timers' = Tail(timers)
  /\ UNCHANGED <<storage, authUrl, pollers, now>>

(***************************************************************************)
(* Specifications.                                                         *)
(***************************************************************************)
Streams == 1..Len(streams)
Pollers == 1..Len(pollers)

\* one turn, the bytes of the stream cut anywhere
DecodeNext ==
  \/ Send(UserText_a)
  \/ \E s \in Streams : FetchResolve(s)
  \/ \E s \in Streams : \E ks \in SeqsUpTo(DecodeKinds, MaxFrames) : \E tail \in Partials :
       ServerWriteAll(s, ks, tail)
  \/ \E s \in Streams : \E n \in 1..Len(streams[s].wire) : Read(s, n)
  \/ \E s \in Streams : ReadDone(s)

DecodeSpec == Init /\ [][DecodeNext]_vars

\* one turn, every kind of frame, each frame read whole
TurnNext ==
  \/ Send(UserText_a)
  \/ \E s \in Streams : FetchResolve(s)
  \/ \E s \in Streams : \E k \in TurnKinds :
       Len(streams[s].sent) < MaxTurnFrames /\ Deliver(s, k)
  \/ \E s \in Streams : Close(s)

TurnSpec == Init /\ [][TurnNext]_vars

\* the scripts the server follows for a stream: a submitted turn needs authorization,
\* a replayed one does not
ScriptsFor(s) == IF streams[s].origin = "user" THEN {AuthScript} ELSE {PlainScript}

\* a session of one turn: the stream, the authorization hand-off and the replay
Next ==
  \/ Send(UserText_a)
  \/ \E s \in Streams : FetchResolve(s)
  \/ \E s \in Streams : \E k \in FrameKinds :
       Follows(ScriptsFor(s), streams[s].sent, k) /\ Deliver(s, k)
  \/ \E s \in Streams : streams[s].sent \in ScriptsFor(s) /\ Close(s)
  \/ \E t \in {now, now + 1} : OpenAuthPopup(t, MaxPolls)
  \/ \E i \in Pollers : PollTick(i, MaxQueries)
  \/ \E i \in Pollers : PollAuthorized(i)
  \/ \E i \in Pollers : PollRetry(i)
  \/ ReplayTimer

Spec == Init /\ [][Next]_vars

\* two turns whose streams overlap, both needing authorization
TwoTurnNext ==
  \/ \E t \in UserTexts : Send(t)
  \/ \E s \in Streams : FetchResolve(s)
  \/ \E s \in Streams : \E k \in FrameKinds :
       Follows({AuthScript}, streams[s].sent, k) /\ Deliver(s, k)
  \/ \E s \in Streams : streams[s].sent = AuthScript /\ Close(s)

TwoTurnSpec == Init /\ [][TwoTurnNext]_vars

\* the state after the turn of Spec: Send(UserText_a), the fetch resolved, the
\* frames of AuthScript delivered, the stream closed
AfterAuthTurn ==
  DeliverAll([NewStream(UserText_a, None, "user") EXCEPT !.pc = "read", !.cur = 3],
             [conv |-> None, last |-> None,
              elems |-> <<MessageAdd(Msg_Welcome, "assistant"), MessageAdd(UserText_a, "user"),
                          NewAssistantElement>>,
              typing |-> 1, authUrl |-> FALSE, cur |-> 3],
             AuthScript)

PollInit ==
  \E r \in {AfterAuthTurn} :
    /\ storage = [conv |-> r.w.conv, last |-> r.w.last, poll |-> None]
    /\ elems = r.w.elems
    /\ typing = r.w.typing
    /\ authUrl = r.w.authUrl
    /\ streams = <<[r.st EXCEPT !.closed = TRUE, !.pc = "done"]>>
    /\ pollers = <<>>
    /\ timers = <<>>
    /\ now = 0

\* the poller after that turn, bounded by the code alone (the model would allow
\* one more query than maxAttempts); the replay is not answered
PollNext ==
  \/ \E t \in {now, now + 1} : OpenAuthPopup(t, MaxSessions)
  \/ \E i \in Pollers : PollTick(i, maxAttempts + 1)
  \/ \E i \in Pollers : PollAuthorized(i)
  \/ \E i \in Pollers : PollRetry(i)
  \/ ReplayTimer

PollSpec == PollInit /\ [][PollNext]_vars

\* the polling of one session whose status queries all fail
PollFailNext ==
  \/ \E t \in {now, now + 1} : OpenAuthPopup(t, MaxSessions)
  \/ \E i \in Pollers : PollTick(i, maxAttempts + 1)
  \/ \E i \in Pollers : PollFail(i)

PollFailSpec == PollInit /\ [][PollFailNext]_vars


(***************************************************************************)
(* Transport failures.  Everything streamResponse does is inside one try;  *)
(* a fetch that rejects or a read that throws lands in its catch.          *)
(***************************************************************************)
\* a variant of StreamCatch that ends the call without telling the user
StreamCatch_silent(s) ==
  /\ streams' = [streams EXCEPT ![s].pc = "failed"]
  /\ UNCHANGED <<storage, elems, typing, authUrl, pollers, timers, now>>

\* the catch of streamResponse: the indicator is removed, the apology is added and
\* the call returns
StreamCatch(s) ==
  /\ streams' = [streams EXCEPT ![s].pc = "failed"]
  /\ typing' = RemoveTypingIndicator(typing)
  /\ elems' = Append(elems, MessageAdd(Msg_StreamError, "assistant"))
  /\ UNCHANGED <<storage, authUrl, pollers, timers, now>>

\* the fetch that opens the stream rejects
FetchReject(s) ==
  /\ streams[s].pc = "fetch"
  /\ StreamCatch(s)

\* reader.read() throws
ReadThrow(s) ==
  /\ streams[s].pc = "read"
  /\ ~streams[s].closed /\ streams[s].wire = <<>>
  /\ StreamCatch(s)

\* two turns with plain answers, each of which may fail at the fetch or at any read
FailNext ==
  \/ \E t \in UserTexts : Send(t)
  \/ \E s \in Streams : FetchResolve(s)
  \/ \E s \in Streams : FetchReject(s)
  \/ \E s \in Streams : \E k \in FrameKinds :
       Follows({PlainScript}, streams[s].sent, k) /\ Deliver(s, k)
  \/ \E s \in Streams : ReadThrow(s)
  \/ \E s \in Streams : streams[s].sent = PlainScript /\ Close(s)

FailSpec == Init /\ [][FailNext]_vars

(***************************************************************************)
(* The conversation id.  The server that answers POST /chat creates the    *)
(* id of a conversation on its first turn, that is for a request without   *)
(* conversation_id, and sends the id of the conversation in an id event.   *)
(***************************************************************************)
\* the id frame that carries the conversation id c
IdKind(c) == IF c = Text_c1 THEN "id" ELSE IF c = Text_c2 THEN "id_c2" ELSE "id_c3"

\* the id the server gives the conversation it creates for the request of call s
FreshId(s) == IF s = 1 THEN Text_c1 ELSE IF s = 2 THEN Text_c2 ELSE Text_c3

\* the id frame the server sends on stream s: the id of the request, or a new one
ServerIdKind(s) ==
  IF streams[s].cid = None THEN IdKind(FreshId(s)) ELSE IdKind(streams[s].cid[1])

\* the answer to a turn: the conversation's id, then the end of the turn
IdScript(s) == <<ServerIdKind(s), "end_turn">>

\* three turns, each answered with the id of its conversation
IdNext ==
  \/ \E t \in UserTexts \cup {UserText_c} : Send(t)
  \/ \E s \in Streams : FetchResolve(s)
  \/ \E s \in Streams : \E k \in FrameKinds :
       Follows({IdScript(s)}, streams[s].sent, k) /\ Deliver(s, k)
  \/ \E s \in Streams : streams[s].sent = IdScript(s) /\ Close(s)

IdSpec == Init /\ [][IdNext]_vars

(***************************************************************************)
(* fetchChatHistory, called by init when a conversation id is stored.  The *)
(* call in flight is kept in streams as a record of origin "history".      *)
(***************************************************************************)
\* the messages the history endpoint may return: none, or a user message stored as
\* plain text, an assistant message stored as content blocks and one stored as
\* an object
Histories ==
  {<<>>,
   <<[role |-> "user", content |-> UserText_a],
     [role |-> "assistant", content |-> Content_blocks],
     [role |-> "assistant", content |-> Content_object]>>}

\* contentBlock.type === 'text'
IsTextBlock(block) ==
  StrProp(block, K_type) = Some(K_text) /\ StrProp(block, K_text) # None

\* the elements the for loop over the content blocks adds
RenderBlocks(blocks, role) ==
  LET sel == SelectSeq(blocks, IsTextBlock) IN
    [i \in 1..Len(sel) |-> MessageAdd(StrProp(sel[i], K_text)[1], role)]

\* the elements the forEach callback adds for one stored message: the text blocks
\* of a list, nothing for a string, the content as it is when it is no JSON or
\* not iterable
RenderMessage(message) ==
  CHOOSE x \in {IF p.ok /\ p.v.t = "arr" THEN RenderBlocks(p.v.v, message.role)
                ELSE IF p.ok /\ p.v.t = "str" THEN <<>>
                ELSE <<MessageAdd(message.content, message.role)>> :
                  p \in {JSONParse(message.content)}} : TRUE

RECURSIVE RenderHistory(_)
RenderHistory(messages) ==
  IF messages = <<>> THEN <<>>
  ELSE RenderMessage(Head(messages)) \o RenderHistory(Tail(messages))

\* the loading message fetchChatHistory appends before its fetch
LoadingElement == Element("assistant", <<>>, "text", Msg_Loading)

\* the call of fetchChatHistory(conversationId) up to its fetch
NewHistory(conversationId) ==
  [NewStream(<<>>, Some(conversationId), "history") EXCEPT !.pc = "history", !.cur = 1]

\* the container without its element i, and the calls with their current element
\* where it is after the removal
RemoveChild(es, i) == SubSeq(es, 1, i - 1) \o SubSeq(es, i + 1, Len(es))
AfterRemoval(ss, i) ==
  [s \in 1..Len(ss) |-> IF ss[s].cur > i THEN [ss[s] EXCEPT !.cur = @ - 1]
                        ELSE IF ss[s].cur = i THEN [ss[s] EXCEPT !.cur = 0]
                        ELSE ss[s]]

\* querySelector('.shop-ai-message.assistant') with the loading text: its index, or 0
FirstLoading(es) ==
  LET a == {i \in 1..Len(es) : es[i].cls = "assistant"} IN
    IF a # {} /\ es[Min(a)].text = Msg_Loading THEN Min(a) ELSE 0

\* init in a tab that has a conversation id stored: fetchChatHistory is called
AttachInit ==
  /\ storage = [conv |-> Some(Text_c1), last |-> None, poll |-> None]
  /\ elems = <<LoadingElement>>
  /\ typing = 0
  /\ authUrl = FALSE
  /\ streams = <<NewHistory(Text_c1)>>
  /\ pollers = <<>>
  /\ timers = <<>>
  /\ now = 0

\* the history is fetched: the loading message is removed and the stored messages
\* are added, or the welcome message when there are none
HistoryOk(h, messages) ==
  /\ streams[h].pc = "history"
  /\ \E es \in {RemoveChild(elems, streams[h].cur)} : \E r \in {RenderHistory(messages)} :
       elems' = es \o (IF messages = <<>> THEN <<MessageAdd(Msg_Welcome, "assistant")>> ELSE r)
  /\ streams' = [AfterRemoval(streams, streams[h].cur) EXCEPT ![h].pc = "attached"]
  /\ UNCHANGED <<storage, typing, authUrl, pollers, timers, now>>

\* a variant of HistoryFail that leaves the stored conversation id
HistoryFail_keepid(h) ==
  /\ streams[h].pc = "history"
  /\ \E i \in {FirstLoading(elems)} :
       /\ elems' = (IF i = 0 THEN elems ELSE RemoveChild(elems, i))
                     \o <<MessageAdd(Msg_Welcome, "assistant")>>
       /\ streams' = [(IF i = 0 THEN streams ELSE AfterRemoval(streams, i))
                        EXCEPT ![h].pc = "detached"]
  /\ UNCHANGED <<storage, typing, authUrl, pollers, timers, now>>

\* the fetch rejects, the response is not ok or its body is no JSON: the catch
HistoryFail(h) ==
  /\ streams[h].pc = "history"
  /\ \E i \in {FirstLoading(elems)} :
       /\ elems' = (IF i = 0 THEN elems ELSE RemoveChild(elems, i))
                     \o <<MessageAdd(Msg_Welcome, "assistant")>>
       /\ streams' = [(IF i = 0 THEN streams ELSE AfterRemoval(streams, i))
                        EXCEPT ![h].pc = "detached"]
  /\ storage' = [storage EXCEPT !.conv = None]
  /\ UNCHANGED <<typing, authUrl, pollers, timers, now>>

\* a reloaded tab: the history call and turns of the user, sent before or after it
\* returns, each answered with the id of its conversation
AttachNext ==
  \/ \E h \in Streams : \E ms \in Histories : HistoryOk(h, ms)
  \/ \E h \in Streams : HistoryFail(h)
  \/ \E t \in UserTexts : Send(t)
  \/ \E s \in Streams : FetchResolve(s)
  \/ \E s \in Streams : \E k \in FrameKinds :
       Follows({IdScript(s)}, streams[s].sent, k) /\ Deliver(s, k)
  \/ \E s \in Streams : streams[s].sent = IdScript(s) /\ Close(s)

AttachSpec == AttachInit /\ [][AttachNext]_vars

\* frames of a turn whose events are serialized again: texts with escapes, lines that
\* are no event
RoundTripKinds ==
  {"id", "chunk", "chunk_esc", "products", "unknown", "malformed", "nondata", "empty"}

\* one turn of these frames, each read whole
RoundTripNext ==
  \/ Send(UserText_a)
  \/ \E s \in Streams : FetchResolve(s)
  \/ \E s \in Streams : \E k \in RoundTripKinds :
       Len(streams[s].sent) < MaxTurnFrames /\ Deliver(s, k)
  \/ \E s \in Streams : Close(s)

RoundTripSpec == Init /\ [][RoundTripNext]_vars

\* the polling sessions after the turn that needed authorization, bounded by the code
\* alone; a status query is answered 'authorized', answered another status, or fails
PollLiveNext ==
  \/ \E t \in {now, now + 1} : OpenAuthPopup(t, MaxPolls)
  \/ \E i \in Pollers : PollTick(i, maxAttempts + 1)
  \/ \E i \in Pollers : PollAuthorized(i)
  \/ \E i \in Pollers : PollRetry(i)
  \/ \E i \in Pollers : PollFail(i)
  \/ ReplayTimer

\* the status query of session i resolves or rejects
QueryEnds(i) == i \in Pollers /\ (PollAuthorized(i) \/ PollRetry(i) \/ PollFail(i))

\* the timers of the sessions fire and their status queries resolve or reject:
\* setTimeout(poll, ...) runs poll, the awaited fetch settles
PollLiveSpec ==
  /\ PollInit /\ [][PollLiveNext]_vars
  /\ \A i \in 1..MaxPolls :
       /\ WF_vars(i \in Pollers /\ PollTick(i, maxAttempts + 1))
       /\ WF_vars(QueryEnds(i))

\* frames of a turn of several messages: chunks of three texts, the events that
\* finalize a message, an error
ChunkKinds == {"chunk", "chunk_link", "chunk_esc", "message_complete", "new_message", "error"}

\* one turn of these frames, each read whole
ChunkNext ==
  \/ Send(UserText_a)
  \/ \E s \in Streams : FetchResolve(s)
  \/ \E s \in Streams : \E k \in ChunkKinds :
       Len(streams[s].sent) < MaxTurnFrames /\ Deliver(s, k)
  \/ \E s \in Streams : Close(s)

ChunkSpec == Init /\ [][ChunkNext]_vars

\* frames of a turn some of which do not start with 'data: ': a comment line, an
\* empty line, events written after 'data:' and after 'Data: '
PrefixKinds == {"id", "chunk", "message_complete", "nondata", "empty", "nospace", "upper"}

\* one turn of these frames, each read whole
PrefixNext ==
  \/ Send(UserText_a)
  \/ \E s \in Streams : FetchResolve(s)
  \/ \E s \in Streams : \E k \in PrefixKinds :
       Len(streams[s].sent) < MaxTurnFrames /\ Deliver(s, k)
  \/ \E s \in Streams : Close(s)

PrefixSpec == Init /\ [][PrefixNext]_vars

(***************************************************************************)
(* The server: the database helpers of db.server (src/unnamed/part_000)    *)
(* and the routes of api.chat-auth.jsx.  In the specifications of the      *)
(* server the variables hold                                               *)
(*   storage   the database: [users, history, verifiers], each table a     *)
(*             sequence of rows; the id of a PromptHistory row is its      *)
(*             index in the table                                          *)
(*   streams   the calls of the server functions, running or finished:     *)
(*             their arguments, position (pc), local variables and result  *)
(*   now       the clock, Date.now()                                       *)
(* and elems, typing, authUrl, pollers and timers do not change.  Every    *)
(* awaited prisma call is one step; calls interleave between the steps.    *)
(***************************************************************************)
UserIds == {"u1", "u2"}
Prompts == {"p1", "p2"}

\* a ChatUser row
ChatUserRow(id, shopId, username, passwordHash, currentPrompt, isActive) ==
  [id |-> id, shopId |-> shopId, username |-> username, passwordHash |-> passwordHash,
   currentPrompt |-> currentPrompt, isActive |-> isActive]

\* prisma.chatUser.findUnique({where: {id}}): the row, None when there is none
FindUserById(users, id) ==
  LET R == {i \in 1..Len(users) : users[i].id = id} IN
    IF R = {} THEN None ELSE Some(users[CHOOSE i \in R : TRUE])

\* prisma.promptHistory.findFirst({where: {userId}, orderBy: {version: 'desc'}}):
\* a row of the user with the greatest version, None when the user has none
FindLastHistory(history, userId) ==
  LET R == {i \in 1..Len(history) : history[i].userId = userId} IN
    IF R = {} THEN None
    ELSE Some(history[CHOOSE i \in R : \A j \in R : history[j].version <= history[i].version])

\* prisma.promptHistory.findUnique({where: {id}})
FindHistoryById(history, id) == IF id \in 1..Len(history) THEN Some(history[id]) ELSE None

\* prisma.chatUser.update({where: {id}, data: {currentPrompt}})
SetCurrentPrompt(users, id, prompt) ==
  [i \in 1..Len(users) |->
     IF users[i].id = id THEN [users[i] EXCEPT !.currentPrompt = Some(prompt)] ELSE users[i]]

\* a call of updateUserPrompt(userId, prompt) or, with fn "restore", of
\* restorePromptFromHistory(userId, historyId), before its first query
NewPromptCall(fn, userId, prompt, historyId) ==
  [fn |-> fn, userId |-> userId, prompt |-> prompt, historyId |-> historyId,
   pc |-> IF fn = "restore" THEN "findHistory" ELSE "findUser",
   old |-> None, version |-> 0, status |-> 0, currentPrompt |-> None]

\* the database after two users have each set a first prompt: no history yet
PromptInit ==
  /\ storage = [users |-> <<ChatUserRow("u1", "s1", "ann", "h1", Some("p0"), TRUE),
                            ChatUserRow("u2", "s1", "bob", "h2", Some("p0"), TRUE)>>,
                history |-> <<>>, verifiers |-> <<>>]
  /\ streams = <<>>
  /\ now = 0
  /\ elems = <<>> /\ typing = 0 /\ authUrl = FALSE /\ pollers = <<>> /\ timers = <<>>

\* an authenticated POST with action 'update' reaches updateUserPrompt(user.id, prompt)
UpdateCall(userId, prompt, cap) ==
  /\ Len(streams) < cap
  /\ streams' = Append(streams, NewPromptCall("update", userId, prompt, 0))
  /\ UNCHANGED <<storage, elems, typing, authUrl, pollers, timers, now>>

\* an authenticated POST with action 'restore' reaches
\* restorePromptFromHistory(user.id, historyId)
RestoreCall(userId, historyId, cap) ==
  /\ Len(streams) < cap
  /\ streams' = Append(streams, NewPromptCall("restore", userId, "", historyId))
  /\ UNCHANGED <<storage, elems, typing, authUrl, pollers, timers, now>>

\* a variant of RestoreFind that does not compare the owner of the history row
RestoreFind_anyuser(c) ==
  /\ streams[c].pc = "findHistory"
  /\ \E h \in {FindHistoryById(storage.history, streams[c].historyId)} :
       streams' = [streams EXCEPT ![c] =
         IF h = None
           THEN [@ EXCEPT !.pc = "thrown", !.status = 500]
           ELSE [@ EXCEPT !.pc = "findUser", !.prompt = h[1].content]]
  /\ UNCHANGED <<storage, elems, typing, authUrl, pollers, timers, now>>

\* restorePromptFromHistory: the history row is read; a missing row or one of
\* another user throws, which the action answers with status 500
RestoreFind(c) ==
  /\ streams[c].pc = "findHistory"
  /\ \E h \in {FindHistoryById(storage.history, streams[c].historyId)} :
       streams' = [streams EXCEPT ![c] =
         IF h = None \/ h[1].userId # streams[c].userId
           THEN [@ EXCEPT !.pc = "thrown", !.status = 500]
           ELSE [@ EXCEPT !.pc = "findUser", !.prompt = h[1].content]]
  /\ UNCHANGED <<storage, elems, typing, authUrl, pollers, timers, now>>

\* updateUserPrompt: the user row is read; a non-empty current prompt is to be saved
UpdateFindUser(c) ==
  /\ streams[c].pc = "findUser"
  /\ \E u \in {FindUserById(storage.users, streams[c].userId)} :
       streams' = [streams EXCEPT ![c] =
         IF u # None /\ u[1].currentPrompt \notin {None, Some("")}
           THEN [@ EXCEPT !.pc = "findLast", !.old = u[1].currentPrompt]
           ELSE [@ EXCEPT !.pc = "write"]]
  /\ UNCHANGED <<storage, elems, typing, authUrl, pollers, timers, now>>

\* updateUserPrompt: the greatest version of the user's history is read
UpdateFindLast(c) ==
  /\ streams[c].pc = "findLast"
  /\ \E h \in {FindLastHistory(storage.history, streams[c].userId)} :
       streams' = [streams EXCEPT ![c].pc = "create",
                                  ![c].version = (IF h = None THEN 0 ELSE h[1].version) + 1]
  /\ UNCHANGED <<storage, elems, typing, authUrl, pollers, timers, now>>

\* updateUserPrompt: the old prompt is saved as a new history row
UpdateCreateHistory(c) ==
  /\ streams[c].pc = "create"
  /\ storage' = [storage EXCEPT !.history =
                   Append(@, [userId |-> streams[c].userId, content |-> streams[c].old[1],
                              version |-> streams[c].version])]
  /\ streams' = [streams EXCEPT ![c].pc = "write"]
  /\ UNCHANGED <<elems, typing, authUrl, pollers, timers, now>>

\* updateUserPrompt: the current prompt is replaced; the action answers 200 with it
UpdateWrite(c) ==
  /\ streams[c].pc = "write"
  /\ storage' = [storage EXCEPT !.users = SetCurrentPrompt(@, streams[c].userId, streams[c].prompt)]
  /\ streams' = [streams EXCEPT ![c].pc = "done", ![c].status = 200,
                                ![c].currentPrompt = Some(streams[c].prompt)]
  /\ UNCHANGED <<elems, typing, authUrl, pollers, timers, now>>

\* the prompt requests of two users, up to MaxCalls of them, interleaved
PromptNext ==
  \/ \E u \in UserIds : \E p \in Prompts : UpdateCall(u, p, MaxCalls)
  \/ \E u \in UserIds : \E h \in 1..MaxCalls : RestoreCall(u, h, MaxCalls)
  \/ \E c \in Streams : RestoreFind(c)
  \/ \E c \in Streams : UpdateFindUser(c)
  \/ \E c \in Streams : UpdateFindLast(c)
  \/ \E c \in Streams : UpdateCreateHistory(c)
  \/ \E c \in Streams : UpdateWrite(c)

PromptSpec == PromptInit /\ [][PromptNext]_vars

(***************************************************************************)
(* getCodeVerifier (src/unnamed/part_000 78-103).  A CodeVerifier row is   *)
(* [id, state, verifier, expiresAt]; the clock counts minutes.  A call has *)
(* the state it asks for, its position, the row its findFirst gave (found) *)
(* and what it returned (result): None is null.                            *)
(***************************************************************************)
VerifierMinutes == 10
MaxClock == 15
VerifierStates == {"st1", "st2"}

\* storeCodeVerifier(state, verifier) at minute t: the row it creates
VerifierRow(id, state, t) ==
  [id |-> id, state |-> state, verifier |-> <<"v", id>>, expiresAt |-> t + VerifierMinutes]

\* the tables after one or two storeCodeVerifier calls, the second one half
\* the lifetime of a verifier after the first; the clock is at the last store
VerifierInit ==
  /\ \E n \in 1..2 : \E st \in [1..n -> VerifierStates] :
       /\ storage = [users |-> <<>>, history |-> <<>>,
                     verifiers |-> [i \in 1..n |->
                        VerifierRow(i, st[i], (i - 1) * (VerifierMinutes \div 2))]]
       /\ now = (n - 1) * (VerifierMinutes \div 2)
  /\ streams = <<>>
  /\ elems = <<>> /\ typing = 0 /\ authUrl = FALSE /\ pollers = <<>> /\ timers = <<>>

\* prisma.codeVerifier.findFirst({where: {state, expiresAt: {gt: new Date()}}})
FindVerifier(verifiers, state, t) ==
  LET R == {i \in 1..Len(verifiers) : verifiers[i].state = state /\ verifiers[i].expiresAt > t} IN
    IF R = {} THEN None ELSE Some(verifiers[CHOOSE i \in R : \A j \in R : i <= j])

\* the rows that prisma.codeVerifier.delete({where: {id}}) leaves
WithoutVerifier(verifiers, id) == SelectSeq(verifiers, LAMBDA r : r.id # id)

\* a call of getCodeVerifier(state) starts
GetCodeVerifierCall(state, cap) ==
  /\ Len(streams) < cap
  /\ streams' = Append(streams, [fn |-> "getCodeVerifier", state |-> state, pc |-> "find",
                                 found |-> None, result |-> None])
  /\ UNCHANGED <<storage, elems, typing, authUrl, pollers, timers, now>>

\* getCodeVerifier: the findFirst; with no row the call returns null
GetCodeVerifierFind(c) ==
  /\ streams[c].pc = "find"
  /\ \E v \in {FindVerifier(storage.verifiers, streams[c].state, now)} :
       streams' = [streams EXCEPT ![c].found = v,
                                  ![c].pc = IF v = None THEN "done" ELSE "delete"]
  /\ UNCHANGED <<storage, elems, typing, authUrl, pollers, timers, now>>

\* a variant of GetCodeVerifierDelete that returns the row it found although
\* the delete failed
GetCodeVerifierDelete_swallow(c) ==
  /\ streams[c].pc = "delete"
  /\ storage' = [storage EXCEPT !.verifiers = WithoutVerifier(@, streams[c].found[1].id)]
  /\ streams' = [streams EXCEPT ![c].pc = "done", ![c].result = streams[c].found]
  /\ UNCHANGED <<elems, typing, authUrl, pollers, timers, now>>

\* getCodeVerifier: the delete of the row by id.  prisma's delete throws when
\* no row has the id; the catch then returns null.  Otherwise the row is
\* removed and the call returns it.
GetCodeVerifierDelete(c) ==
  /\ streams[c].pc = "delete"
  /\ \E id \in {streams[c].found[1].id} :
       IF \E i \in 1..Len(storage.verifiers) : storage.verifiers[i].id = id
         THEN /\ storage' = [storage EXCEPT !.verifiers = WithoutVerifier(@, id)]
              /\ streams' = [streams EXCEPT ![c].pc = "done", ![c].result = streams[c].found]
         ELSE /\ storage' = storage
              /\ streams' = [streams EXCEPT ![c].pc = "done"]
  /\ UNCHANGED <<elems, typing, authUrl, pollers, timers, now>>

\* time passes: half the lifetime of a verifier
ClockTick ==
  /\ now < MaxClock
  /\ now' = now + VerifierMinutes \div 2
  /\ UNCHANGED <<storage, elems, typing, authUrl, streams, pollers, timers>>

\* up to MaxCalls + 1 calls of getCodeVerifier, interleaved, while time passes
VerifierNext ==
  \/ \E s \in VerifierStates : GetCodeVerifierCall(s, MaxCalls + 1)
  \/ \E c \in Streams : GetCodeVerifierFind(c)
  \/ \E c \in Streams : GetCodeVerifierDelete(c)
  \/ ClockTick

VerifierSpec == VerifierInit /\ [][VerifierNext]_vars

(***************************************************************************)
(* Registration, login and bearer tokens (api.chat-auth.jsx).  The         *)
(* requests modelled have passed the parameter checks of action (103-115). *)
(* A token is [kind, userId, exp]: kind "json" is the base64 of the JSON   *)
(* text of a payload with that userId and, unless exp is None, that exp;   *)
(* kind "garbage" is a text that JSON.parse rejects.  Tokens are not       *)
(* signed, so a request may carry any of them.  In these specifications    *)
(* the clock counts days.                                                  *)
(***************************************************************************)
TokenDays == 7

\* hashPassword: SHA-256, taken to be free of collisions
HashPassword(password) == <<"sha256", password>>

\* generateToken(userId) at day t
GenerateToken(userId, t) == [kind |-> "json", userId |-> userId, exp |-> Some(t + TokenDays)]

\* parseToken(token) at day t: the payload, None for null.  JSON.parse throws on
\* a text that is no JSON; payload.exp < Date.now() is false when exp is absent.
ParseToken(token, t) ==
  IF token.kind # "json" THEN None
  ELSE IF token.exp # None /\ token.exp[1] < t THEN None
  ELSE Some(token)

\* prisma.chatUser.findUnique({where: {shopId_username: {shopId, username}}})
FindUserByUsername(users, shopId, username) ==
  LET R == {i \in 1..Len(users) : users[i].shopId = shopId /\ users[i].username = username} IN
    IF R = {} THEN None ELSE Some(users[CHOOSE i \in R : TRUE])

\* the id prisma gives the n-th ChatUser row
UserId(n) == <<"user", n>>

Shops == {"s1", "s2"}
Usernames == {"ann", "cat"}

\* one user, ann of shop s1, is registered
RegisterInit ==
  /\ storage = [users |-> <<ChatUserRow(UserId(1), "s1", "ann", HashPassword("pw1"), None, TRUE)>>,
                history |-> <<>>, verifiers |-> <<>>]
  /\ streams = <<>>
  /\ now = 0
  /\ elems = <<>> /\ typing = 0 /\ authUrl = FALSE /\ pollers = <<>> /\ timers = <<>>

\* a POST with action 'register' reaches handleRegister
RegisterCall(shopId, username, password, cap) ==
  /\ Len(streams) < cap
  /\ streams' = Append(streams, [fn |-> "register", shopId |-> shopId, username |-> username,
                                 password |-> password, pc |-> "check", existing |-> FALSE,
                                 status |-> 0, userId |-> None, token |-> None])
  /\ UNCHANGED <<storage, elems, typing, authUrl, pollers, timers, now>>

\* handleRegister: getChatUserByUsername; an existing user is answered 409
RegisterCheck(c) ==
  /\ streams[c].pc = "check"
  /\ \E u \in {FindUserByUsername(storage.users, streams[c].shopId, streams[c].username)} :
       streams' = [streams EXCEPT ![c] =
         IF u # None THEN [@ EXCEPT !.pc = "done", !.existing = TRUE, !.status = 409]
                     ELSE [@ EXCEPT !.pc = "create"]]
  /\ UNCHANGED <<storage, elems, typing, authUrl, pollers, timers, now>>

\* a variant of RegisterCreate for a table without the unique index
RegisterCreate_noindex(c) ==
  /\ streams[c].pc = "create"
  /\ \E id \in {UserId(Len(storage.users) + 1)} :
       /\ storage' = [storage EXCEPT !.users =
            Append(@, ChatUserRow(id, streams[c].shopId, streams[c].username,
                                  HashPassword(streams[c].password), None, TRUE))]
       /\ streams' = [streams EXCEPT ![c].pc = "done", ![c].status = 201,
                                     ![c].userId = Some(id), ![c].token = Some(GenerateToken(id, now))]
  /\ UNCHANGED <<elems, typing, authUrl, pollers, timers, now>>

\* handleRegister: createChatUser, then the 201 with a token.  The unique index
\* ChatUser_shopId_username_key rejects a second row with the pair: create
\* throws, createChatUser rethrows and handleRegister is rejected; action has
\* returned its promise without awaiting it, so the request fails without a
\* response of the route (status stays 0).
RegisterCreate(c) ==
  /\ streams[c].pc = "create"
  /\ IF FindUserByUsername(storage.users, streams[c].shopId, streams[c].username) # None
       THEN /\ storage' = storage
            /\ streams' = [streams EXCEPT ![c].pc = "thrown"]
       ELSE \E id \in {UserId(Len(storage.users) + 1)} :
              /\ storage' = [storage EXCEPT !.users =
                   Append(@, ChatUserRow(id, streams[c].shopId, streams[c].username,
                                         HashPassword(streams[c].password), None, TRUE))]
              /\ streams' = [streams EXCEPT ![c].pc = "done", ![c].status = 201,
                                            ![c].userId = Some(id),
                                            ![c].token = Some(GenerateToken(id, now))]
  /\ UNCHANGED <<elems, typing, authUrl, pollers, timers, now>>

\* up to MaxCalls + 1 register requests, interleaved
RegisterNext ==
  \/ \E s \in Shops : \E u \in Usernames : RegisterCall(s, u, "pw1", MaxCalls + 1)
  \/ \E c \in Streams : RegisterCheck(c)
  \/ \E c \in Streams : RegisterCreate(c)

RegisterSpec == RegisterInit /\ [][RegisterNext]_vars

\* two registered users of shop s1: ann is active, bob has been disabled
AuthInit ==
  /\ storage = [users |-> <<ChatUserRow("u1", "s1", "ann", HashPassword("pw1"), None, TRUE),
                            ChatUserRow("u2", "s1", "bob", HashPassword("pw1"), None, FALSE)>>,
                history |-> <<>>, verifiers |-> <<>>]
  /\ streams = <<>>
  /\ now = 0
  /\ elems = <<>> /\ typing = 0 /\ authUrl = FALSE /\ pollers = <<>> /\ timers = <<>>

\* the Authorization headers of the requests: none, another scheme, and Bearer
\* with a text that is no JSON or with a payload naming the active user, the
\* disabled user or nobody, with the expiry of a token issued at day 0 or none
Headers ==
  {None, Some([scheme |-> "Basic", token |-> GenerateToken("u1", 0)]),
   Some([scheme |-> "Bearer", token |-> [kind |-> "garbage", userId |-> "", exp |-> None]])}
  \cup {Some([scheme |-> "Bearer", token |-> [kind |-> "json", userId |-> u, exp |-> e]]) :
          u \in {"u1", "u2", "ux"}, e \in {None, Some(TokenDays)}}

\* a finished request: what it carried, the day it was handled, and the answer
AuthAnswer(fn, username, password, header, status, authenticated, token) ==
  [fn |-> fn, username |-> username, password |-> password, header |-> header, at |-> now,
   status |-> status, authenticated |-> authenticated, token |-> token]

\* handleLogin, for a request of shop s1
HandleLogin(username, password, cap) ==
  /\ Len(streams) < cap
  /\ \E u \in {FindUserByUsername(storage.users, "s1", username)} :
       streams' = Append(streams,
         IF u = None THEN AuthAnswer("login", username, password, None, 401, FALSE, None)
         ELSE IF u[1].passwordHash # HashPassword(password)
           THEN AuthAnswer("login", username, password, None, 401, FALSE, None)
         ELSE IF ~u[1].isActive
           THEN AuthAnswer("login", username, password, None, 403, FALSE, None)
         ELSE AuthAnswer("login", username, password, None, 200, TRUE,
                         Some(GenerateToken(u[1].id, now))))
  /\ UNCHANGED <<storage, elems, typing, authUrl, pollers, timers, now>>

\* the user a request authenticates as, None when it does not: the header
\* check, parseToken and getChatUserById of loader (check) and authenticateRequest
AuthenticatedUser(header) ==
  IF header = None \/ header[1].scheme # "Bearer" THEN None
  ELSE LET payload == ParseToken(header[1].token, now) IN
    IF payload = None THEN None
    ELSE LET user == FindUserById(storage.users, payload[1].userId) IN
      IF user = None \/ ~user[1].isActive THEN None ELSE user

\* GET api/chat-auth?action=check: 200 with authenticated false or true
Check(header, cap) ==
  /\ Len(streams) < cap
  /\ streams' = Append(streams,
       AuthAnswer("check", "", "", header, 200, AuthenticatedUser(header) # None, None))
  /\ UNCHANGED <<storage, elems, typing, authUrl, pollers, timers, now>>

\* a request to the prompt API: 401 when authenticateRequest returns null, else
\* the 200 of the loader's default branch
PromptRequest(header, cap) ==
  /\ Len(streams) < cap
  /\ \E user \in {AuthenticatedUser(header)} :
       streams' = Append(streams,
         IF user = None THEN AuthAnswer("prompt", "", "", header, 401, FALSE, None)
                        ELSE AuthAnswer("prompt", "", "", header, 200, TRUE, None))
  /\ UNCHANGED <<storage, elems, typing, authUrl, pollers, timers, now>>

\* the lifetime of a token passes
AuthClockTick ==
  /\ now + TokenDays <= MaxClock
  /\ now' = now + TokenDays
  /\ UNCHANGED <<storage, elems, typing, authUrl, streams, pollers, timers>>

\* up to MaxCalls requests while time passes
AuthNext ==
  \/ \E u \in {"ann", "bob", "cat"} : \E p \in {"pw1", "pw2"} : HandleLogin(u, p, MaxCalls)
  \/ \E h \in Headers : Check(h, MaxCalls)
  \/ \E h \in Headers : PromptRequest(h, MaxCalls)
  \/ AuthClockTick

AuthSpec == AuthInit /\ [][AuthNext]_vars
(***************************************************************************)
(* What the frames of the model carry, written down from their texts: the  *)
(* text of a frame after decoding, the type of the event it carries (if    *)
(* it carries one), and what a chunk frame adds to the message.            *)
(***************************************************************************)
FrameText(k) ==
  IF k = "malformed_utf8" THEN <<"d","a","t","a",":"," ","{",QUOTE,C_E9>> ELSE FrameBytes(k)

WellFormed(k) ==
  k \notin {"malformed", "malformed_utf8", "nondata", "empty", "nospace", "upper"}

EventType(k) ==
  CASE k \in {"id", "id_c2", "id_c3"} -> T_id
    [] k \in {"chunk", "chunk_link", "chunk_esc"} -> T_chunk
    [] k = "message_complete" -> T_message_complete
    [] k = "end_turn" -> T_end_turn
    [] k = "error" -> T_error
    [] k = "rate_limit" -> T_rate_limit_exceeded
    [] k = "auth_required" -> T_auth_required
    [] k = "products" -> T_product_results
    [] k \in {"tool_use", "tool_opaque", "tool_bare"} -> T_tool_use
    [] k = "new_message" -> T_new_message
    [] k = "content_block_complete" -> T_content_block_complete
    [] k = "unknown" -> Text_ping

ChunkOf(k) ==
  IF k = "chunk" THEN Text_Hello
  ELSE IF k = "chunk_link" THEN Text_link
  ELSE IF k = "chunk_esc" THEN Text_esc
  ELSE <<>>

FrameTexts(ks) == [i \in 1..Len(ks) |-> FrameText(ks[i])]

\* the decoded text of the frames ks, each with its delimiter
RECURSIVE TextOf(_)
TextOf(ks) == IF ks = <<>> THEN <<>> ELSE FrameText(Head(ks)) \o Delimiter \o TextOf(Tail(ks))

\* the types of the events the frames ks carry, in order
RECURSIVE EventTypes(_)
EventTypes(ks) ==
  IF ks = <<>> THEN <<>>
  ELSE (IF WellFormed(Head(ks)) THEN <<Some(EventType(Head(ks)))>> ELSE <<>>)
       \o EventTypes(Tail(ks))

\* the text the chunk frames among ks add to one message
RECURSIVE ChunkText(_)
ChunkText(ks) == IF ks = <<>> THEN <<>> ELSE ChunkOf(Head(ks)) \o ChunkText(Tail(ks))

\* the classes of the elements the frames ks append to the container
RECURSIVE AppendedBy(_)
AppendedBy(ks) ==
  IF ks = <<>> THEN <<>>
  ELSE (CASE Head(ks) \in {"tool_use", "tool_opaque"} -> <<"tool-use">>
          [] Head(ks) = "products" -> <<"product-section">>
          [] Head(ks) = "new_message" -> <<"assistant">>
          [] OTHER -> <<>>)
       \o AppendedBy(Tail(ks))

Classes(es) == [i \in 1..Len(es) |-> es[i].cls]

LastOf(q) == q[Len(q)]

Range(q) == {q[i] : i \in 1..Len(q)}

\* C1 (DecodeSpec): however the bytes the server wrote (the frames sent, each with
\* its delimiter, then the partial fragment tail) are cut into reads, the decoder
\* has emitted exactly the frames that are complete in what it has read, in
\* order, dispatched exactly their events, and holds the rest, which contains
\* no complete frame, in its buffer; when everything is read it has emitted all
\* the frames and the buffer is the fragment.  The message shows the text of
\* the chunk events.
C1_SplitInvariance ==
  \A s \in Streams : streams[s].pc # "fetch" =>
    LET st == streams[s]
        n == Len(st.emitted)
    IN /\ n <= Len(st.sent)
       /\ st.emitted = SubSeq(FrameTexts(st.sent), 1, n)
       /\ TextOf(SubSeq(st.sent, 1, n)) \o st.buffer \o TextDecode(<<>>, st.held \o st.wire).text
            = TextOf(st.sent) \o st.tail
       /\ IndexOfDelim(st.buffer) = 0
       /\ st.log = EventTypes(SubSeq(st.sent, 1, n))
       /\ elems[st.cur].raw = ChunkText(SubSeq(st.sent, 1, n))
       /\ elems[st.cur].text = ChunkText(SubSeq(st.sent, 1, n))
       /\ st.wire = <<>> => /\ st.emitted = FrameTexts(st.sent)
                            /\ st.buffer = st.tail
                            /\ st.held = <<>>

\* the chunk frame 'Hello' followed by end_turn, a read ended after 'Hel': nothing
\* is emitted, the buffer holds the frame up to 'Hel', the next read starts at 'lo'
C1_CutInsideFrame ==
  \E s \in Streams :
    /\ streams[s].sent = <<"chunk", "end_turn">> /\ streams[s].tail = <<>>
    /\ streams[s].emitted = <<>>
    /\ streams[s].buffer = SubSeq(Frame_chunk, 1, Len(Frame_chunk) - 4)
    /\ LastOf(streams[s].buffer) = "l"
    /\ streams[s].wire = <<"l", "o", QUOTE, "}">> \o Delimiter \o Frame_end_turn \o Delimiter

\* C2 (TurnSpec): the events of a stream are dispatched in arrival order, none
\* skipped: the types handed to handleStreamEvent are those of the well-formed
\* frames sent, in order, and the elements appended to the container are those
\* of these events, in order.
C2_DispatchInOrder ==
  \A s \in Streams : streams[s].pc # "fetch" =>
    /\ streams[s].emitted = FrameTexts(streams[s].sent)
    /\ streams[s].log = EventTypes(streams[s].sent)
    /\ Classes(SubSeq(elems, 4, Len(elems))) = AppendedBy(streams[s].sent)

\* the stream [tool_use, product_results, message_complete]: a tool-use item, then
\* the product grid, then the message finalized (the typing indicator removed)
C2_ToolProductsComplete ==
  \E s \in Streams :
    /\ streams[s].sent = <<"tool_use", "products", "message_complete">>
    /\ streams[s].log = <<Some(T_tool_use), Some(T_product_results), Some(T_message_complete)>>
    /\ Len(elems) = 5
    /\ elems[4].cls = "tool-use" /\ elems[4].fmt = "tool-json"
    /\ elems[5].cls = "product-section" /\ elems[5].fmt = "grid"
    /\ typing = 0

\* stream s dispatches an event in this step
Dispatches(s) ==
  /\ s \in 1..Len(streams) /\ Len(streams'[s].log) = Len(streams[s].log) + 1

\* C3 (TurnSpec): a stream that has opened has exactly one current message element,
\* an assistant message of the container; a new_message event finalizes it and makes
\* a newly appended empty assistant message the current one in the same step; no
\* other event changes which element is current; a chunk goes to the current
\* element and to no other.
C3_OneActiveFrame ==
  [][\A s \in 1..Len(streams') : streams'[s].pc # "fetch" =>
       /\ streams'[s].cur \in 1..Len(elems')
       /\ elems'[streams'[s].cur].cls = "assistant"
       /\ Dispatches(s) =>
            LET type == LastOf(streams'[s].log)
                cur == streams[s].cur
            IN /\ type = Some(T_new_message) =>
                    /\ Len(elems') = Len(elems) + 1
                    /\ streams'[s].cur = Len(elems')
                    /\ elems'[Len(elems')] = NewAssistantElement
                    /\ elems'[cur] = FormatMessageContent(elems[cur])
                    /\ \A i \in 1..Len(elems) : i # cur => elems'[i] = elems[i]
               /\ type # Some(T_new_message) => streams'[s].cur = cur
               /\ type = Some(T_chunk) =>
                    /\ elems'[cur].raw = elems[cur].raw \o Text_Hello
                    /\ Len(elems') = Len(elems)
                    /\ \A i \in 1..Len(elems) : i # cur => elems'[i] = elems[i]
    ]_vars

\* chunk, new_message, chunk: the first message is finalized with the first chunk,
\* the second chunk went to the new message, which is the current one
C3_ChunkAfterNewMessage ==
  \E s \in Streams :
    /\ streams[s].sent = <<"chunk", "new_message", "chunk">>
    /\ streams[s].cur = 4
    /\ elems[3].raw = Text_Hello /\ elems[3].fmt = "html"
    /\ elems[4].raw = Text_Hello /\ elems[4].fmt = "text"

(***************************************************************************)
(* The authorization hand-off.                                             *)
(***************************************************************************)
\* poller i can still issue a status query: a timer or a response is pending, the
\* stored polling id is its own and its attempts are not used up
Live(i) ==
  /\ pollers[i].pc \in {"timer", "fetch"}
  /\ storage.poll = Some(pollers[i].id)
  /\ pollers[i].attempt < maxAttempts

\* the replays: the timers pending and the streams they started
ReplayStreams == {s \in Streams : streams[s].origin = "replay"}
Replays == Len(timers) + Cardinality(ReplayStreams)

\* some stream has dispatched an auth_required event
AuthRequiredSeen == \E s \in Streams : Some(T_auth_required) \in Range(streams[s].log)

\* nothing is pending but what the user may do: no stream is open, no timer, no poller
Quiescent ==
  /\ \A s \in Streams : streams[s].pc = "done"
  /\ timers = <<>>
  /\ \A i \in Pollers : pollers[i].pc = "stopped"

\* C4 (Spec): once a polling session with another id has been started after session
\* i, no step of session i changes the storage (pending message, polling id), the
\* replay timers, the container or the streams.
C4_SupersededPollerIsInert ==
  [][\A i \in 1..Len(pollers) :
       ((\E j \in (i + 1)..Len(pollers) : pollers[j].id # pollers[i].id)
        /\ pollers'[i] # pollers[i])
         => UNCHANGED <<storage, timers, elems, streams>>
    ]_vars

\* C5 (Spec): the pending message is replayed exactly once: there is never more
\* than one replay (a pending timer or the stream it started), it carries the
\* text of the turn that needed authorization and the conversation id the
\* polling session was started with, and once a status query has answered
\* 'authorized' there is exactly one replay and the slot is empty, whatever
\* other sessions poll or are answered afterwards.
C5_ReplayedOnce ==
  /\ Replays <= 1
  /\ \A k \in 1..Len(timers) : timers[k] = [msg |-> UserText_a, cid |-> Text_c1]
  /\ \A s \in ReplayStreams : streams[s].msg = UserText_a /\ streams[s].cid = Some(Text_c1)
  /\ \A i \in Pollers : pollers[i].cid = Text_c1
  /\ (\E i \in Pollers : pollers[i].why = "authorized") => Replays = 1 /\ storage.last = None
  /\ Replays = 1 => \E i \in Pollers : pollers[i].why = "authorized"

\* two sessions were answered 'authorized', the first on its second query, the other
\* with its query in flight; the message was replayed once
C5_TwoAuthorizedOneReplay ==
  /\ Len(pollers) = 2
  /\ pollers[1].why = "authorized" /\ pollers[1].queries = 2
  /\ pollers[2].why = "authorized"
  /\ timers = <<>>
  /\ Cardinality(ReplayStreams) = 1
  /\ storage.last = None

\* C7 (Spec): at most one polling session is live.
C7_AtMostOneLive == Cardinality({i \in Pollers : Live(i)}) <= 1

\* C8 as stated (Spec): once an auth_required event has been dispatched, a polling
\* session is started without the user doing anything: when nothing is pending
\* any more, one has been started.
C8_HandOffStartsPolling == (AuthRequiredSeen /\ Quiescent) => pollers # <<>>

\* C8 amended (Spec): the step that dispatches auth_required stores the turn's text
\* as the pending message and starts no polling session; a polling session starts
\* only in openAuthPopup, the click on a rendered auth link while a conversation
\* id is stored: a step of no stream that appends the 'Authentication in
\* progress' message and records the new session's id.
C8_PollingStartsOnClick ==
  [][/\ \A s \in 1..Len(streams) :
          (Dispatches(s) /\ LastOf(streams'[s].log) = Some(T_auth_required)) =>
            /\ pollers' = pollers
            /\ storage'.poll = storage.poll
            /\ storage'.last = Some(streams[s].msg)
     /\ Len(pollers') > Len(pollers) =>
          /\ authUrl
          /\ storage.conv # None
          /\ streams' = streams /\ timers' = timers
          /\ elems' = Append(elems, MessageAdd(Msg_AuthInProgress, "assistant"))
          /\ pollers' = Append(pollers, NewPoller(LastOf(pollers').id, storage.conv[1]))
          /\ storage' = [storage EXCEPT !.poll = Some(LastOf(pollers').id)]
    ]_vars

\* auth_required was dispatched and, after the click, a session polls
C8_SessionAfterClick ==
  /\ AuthRequiredSeen
  /\ storage.last = Some(UserText_a)
  /\ Len(pollers) = 1 /\ pollers[1].pc = "fetch" /\ pollers[1].cid = Text_c1
  /\ LastOf(elems).raw = Msg_AuthInProgress

\* C9 (TwoTurnSpec): the pending replay is one slot: the step that dispatches an
\* auth_required event of a stream sets it to the text that stream was started
\* with, over whatever it held; no other step of the streams changes it.
C9_SlotHoldsLatest ==
  [][IF \E s \in 1..Len(streams) :
          Dispatches(s) /\ LastOf(streams'[s].log) = Some(T_auth_required)
       THEN \A s \in 1..Len(streams) :
              (Dispatches(s) /\ LastOf(streams'[s].log) = Some(T_auth_required)) =>
                storage'.last = Some(streams[s].msg)
       ELSE storage'.last = storage.last
    ]_vars

\* two overlapping turns, the auth_required of the first arrived after that of the
\* second: the slot holds the text of the first, which overwrote the second's
C9_SecondOverwritten ==
  /\ Len(streams) = 2
  /\ streams[1].msg = UserText_a /\ streams[2].msg = UserText_b
  /\ Some(T_auth_required) \in Range(streams[1].log)
  /\ Some(T_auth_required) \in Range(streams[2].log)
  /\ storage.last = Some(UserText_a)

\* C6 (PollSpec): a session issues at most maxAttempts status queries, one per attempt;
\* it gives up only after exactly maxAttempts queries, the step in which it gives
\* up changes nothing (storage, container, typing indicator, streams, timers),
\* and a session that has stopped does nothing more.
C6_GivesUpAfterMaxAttempts ==
  [][\A i \in 1..Len(pollers') :
       /\ pollers'[i].queries <= maxAttempts
       /\ pollers'[i].queries = pollers'[i].attempt
       /\ pollers'[i].why = "exhausted" =>
            pollers'[i].queries = maxAttempts /\ pollers'[i].pc = "stopped"
       /\ (i <= Len(pollers) /\ pollers[i].why # "exhausted" /\ pollers'[i].why = "exhausted") =>
            UNCHANGED <<storage, elems, typing, authUrl, streams, timers, now>>
       /\ (i <= Len(pollers) /\ pollers[i].pc = "stopped") => pollers'[i] = pollers[i]
    ]_vars

\* a session that was never answered 'authorized' nor superseded has given up after
\* 30 queries: the pending message and the polling id are still stored, nothing
\* was replayed and the container shows no further message
C6_GaveUp ==
  /\ Len(pollers) = 1
  /\ pollers[1].why = "exhausted" /\ pollers[1].queries = 30
  /\ storage.last = Some(UserText_a)
  /\ storage.poll = Some(pollers[1].id)
  /\ storage.conv = Some(Text_c1)
  /\ Replays = 0
  /\ LastOf(elems).raw = Msg_AuthInProgress

\* C10 (TurnSpec): a frame whose payload fails JSON.parse is dropped and the stream
\* goes on: the read that delivers it dispatches no event, leaves the stream
\* reading and changes nothing of the storage, the container, the typing
\* indicator or the stream's current element; every well-formed frame read
\* after a malformed one is dispatched, in order.
C10_MalformedDropped ==
  [][\A s \in 1..Len(streams) :
       Len(streams'[s].sent) = Len(streams[s].sent) + 1 =>
         LET k == LastOf(streams'[s].sent) IN
           /\ k = "malformed" =>
                /\ streams'[s].log = streams[s].log
                /\ streams'[s].emitted = Append(streams[s].emitted, Frame_malformed)
                /\ streams'[s].cur = streams[s].cur
                /\ streams'[s].pc = "read"
                /\ UNCHANGED <<storage, elems, typing, authUrl>>
           /\ ("malformed" \in Range(streams[s].sent) /\ WellFormed(k)) =>
                streams'[s].log = Append(streams[s].log, Some(EventType(k)))
    ]_vars

\* a malformed frame, then a chunk: the chunk is dispatched and shown
C10_ChunkAfterMalformed ==
  \E s \in Streams :
    /\ streams[s].sent = <<"malformed", "chunk">>
    /\ streams[s].emitted = <<Frame_malformed, Frame_chunk>>
    /\ streams[s].log = <<Some(T_chunk)>>
    /\ elems[streams[s].cur].text = Text_Hello

\* C11 (DecodeSpec): when the stream ends, what is left in the buffer is not
\* dispatched: the step in which reader.read() returns done changes nothing but
\* the stream's position, and a stream that has ended has dispatched the events
\* of the frames sent and nothing for the unterminated text after them.
C11_LeftoverDiscarded ==
  [][\A s \in 1..Len(streams) :
       (streams[s].pc = "read" /\ streams'[s].pc = "done") =>
         /\ streams'[s].log = streams[s].log
         /\ streams'[s].emitted = streams[s].emitted
         /\ streams'[s].log = EventTypes(streams[s].sent)
         /\ streams'[s].emitted = FrameTexts(streams[s].sent)
         /\ UNCHANGED <<storage, elems, typing, authUrl, pollers, timers>>
    ]_vars

\* the server wrote a complete end_turn payload without a delimiter and closed: the
\* stream has ended, no event was dispatched and the typing indicator is still shown
C11_CompletePayloadDropped ==
  \E s \in Streams :
    /\ streams[s].pc = "done"
    /\ streams[s].sent = <<>> /\ streams[s].tail = Frame_end_turn
    /\ streams[s].buffer = Frame_end_turn
    /\ streams[s].log = <<>>
    /\ typing = 1

\* C12 (FailSpec): a fetch that rejects or a read that throws ends the turn: the
\* failing step removes one typing indicator, appends the fixed apology as an
\* assistant message and touches nothing else; the failed call does nothing
\* afterwards; a text not yet sent can still be sent, and a turn that runs to its
\* end beside or after a failed one shows its answer.
C12_TransportFailureContained ==
  [][/\ \A s \in 1..Len(streams) :
          /\ (streams[s].pc \in {"fetch", "read"} /\ streams'[s].pc = "failed") =>
               /\ typing' = RemoveTypingIndicator(typing)
               /\ elems' = Append(elems, MessageAdd(Msg_StreamError, "assistant"))
               /\ streams' = [streams EXCEPT ![s].pc = "failed"]
               /\ UNCHANGED <<storage, authUrl, pollers, timers>>
          /\ streams[s].pc = "failed" => streams'[s] = streams[s]
          /\ streams'[s].pc = "done" =>
               /\ streams'[s].log = EventTypes(PlainScript)
               /\ elems'[streams'[s].cur].text = Text_Hello
     /\ \A t \in UserTexts :
          (~Sent(t) /\ \E s \in 1..Len(streams) : streams[s].pc = "failed") =>
            ENABLED Send(t)
    ]_vars

\* the first turn failed at a read after its chunk was shown, the second turn, sent
\* after the failure, has run to its end and shows its answer after the apology
C12_SendAfterFailure ==
  /\ Len(streams) = 2
  /\ streams[1].pc = "failed" /\ streams[1].log = <<Some(T_chunk)>>
  /\ streams[2].pc = "done" /\ streams[2].log = EventTypes(PlainScript)
  /\ streams[1].cur + 2 <= Len(elems)
  /\ elems[streams[1].cur + 1] = MessageAdd(Msg_StreamError, "assistant")
  /\ elems[streams[1].cur + 2].cls = "user"
  /\ elems[streams[2].cur].text = Text_Hello
  /\ typing = 0

\* C13 (TurnSpec): the failure string an error or rate_limit_exceeded event has put
\* into the active message stays the content of that message: no later event of
\* the turn replaces it.
C13_FailureStringIsTerminal ==
  [][\A s \in 1..Len(streams) :
       (/\ streams[s].pc = "read"
        /\ streams[s].log # <<>>
        /\ elems[streams[s].cur].text \in {Msg_StreamError, Msg_RateLimit}) =>
          elems'[streams[s].cur].text = elems[streams[s].cur].text
    ]_vars

\* C14 (TwoTurnSpec): at most one network stream is active at any time: of the calls
\* of streamResponse, at most one has issued its fetch and not yet seen the end of
\* its stream.
C14_AtMostOneActiveStream ==
  Cardinality({s \in 1..Len(streams) : streams[s].pc \in {"fetch", "read"}}) <= 1

\* C15 (TwoTurnSpec): each call of send opens exactly one network stream and returns
\* without waiting for it: the step that appends the user's message adds one call
\* of streamResponse that has issued its fetch and read nothing, shows one more
\* typing indicator and changes no other stream; no other step opens a stream,
\* so there are as many streams as user messages.
C15_OneStreamPerSend ==
  [][/\ (Len(elems') = Len(elems) + 1 /\ elems'[Len(elems')].cls = "user") =>
          /\ streams' = Append(streams,
                               NewStream(elems'[Len(elems')].text, storage.conv, "user"))
          /\ streams'[Len(streams')].pc = "fetch"
          /\ streams'[Len(streams')].log = <<>>
          /\ typing' = ShowTypingIndicator(typing)
          /\ UNCHANGED <<storage, authUrl, pollers, timers>>
     /\ Len(streams') # Len(streams) =>
          (Len(elems') = Len(elems) + 1 /\ elems'[Len(elems')].cls = "user")
     /\ Len(streams') = Cardinality({i \in 1..Len(elems') : elems'[i].cls = "user"})
    ]_vars

\* the second message was sent while the answer to the first is being read: its
\* stream is open and the first goes on
C15_SentWhileReading ==
  /\ Len(streams) = 2
  /\ streams[1].pc = "read" /\ streams[1].log # <<>>
  /\ streams[2].pc = "fetch"
  /\ Cardinality({i \in 1..Len(elems) : elems[i].cls = "user"}) = 2

\* C16 (IdSpec): the stored conversation id is created once and never mutated: once
\* a value is stored, no later step changes it to another value or removes it
\* (no history retrieval happens in these sessions).
C16_IdNeverMutated ==
  [][storage.conv # None => storage'.conv = storage.conv]_vars

EventId(s) == CHOOSE c \in {Text_c1, Text_c2, Text_c3} : IdKind(c) = streams[s].sent[1]

\* C18 (IdSpec): an id event stores its conversation id, and every send issued
\* after the event was processed carries that id (the id is never cleared in
\* these sessions).
C18_SendCarriesEventId ==
  [][/\ \A s \in 1..Len(streams) :
          (Len(streams') = Len(streams) /\ streams[s].log = <<>>
           /\ streams'[s].log = <<Some(T_id)>>) =>
            storage'.conv = Some(CHOOSE c \in {Text_c1, Text_c2, Text_c3} :
                                   IdKind(c) = streams'[s].sent[1])
     /\ (Len(streams') = Len(streams) + 1 /\ elems'[Len(elems')].cls = "user") =>
          \A s \in 1..Len(streams) :
            streams[s].log # <<>> => streams'[Len(streams')].cid = Some(EventId(s))
    ]_vars

\* the name, the arguments and the unparseable message of the tool_use test frames
\* search_products
Tool_name == <<"s","e","a","r","c","h","_","p","r","o","d","u","c","t","s">>
\* {'q':'shoes'}
Tool_args == <<"{","\"","q","\"",":","\"","s","h","o","e","s","\"","}">>
\* Searching
Tool_opaque == <<"S","e","a","r","c","h","i","n","g">>

\* C19 (TurnSpec): a tool_use event is never dropped: a turn shows as many tool-use
\* items as it has dispatched tool_use events.
C19_ToolUseNeverDropped ==
  \A s \in Streams :
    Cardinality({i \in 1..Len(elems) : elems[i].cls = "tool-use"})
      = Cardinality({i \in 1..Len(streams[s].log) : streams[s].log[i] = Some(T_tool_use)})

\* C19 amended (TurnSpec): a tool_use event that carries a message appends exactly
\* one tool-use item, with the name and the arguments when the message reads
\* 'Calling tool: <name> with arguments: <rest>' and with the message as text
\* otherwise; a tool_use event without a message appends nothing; none of them
\* changes anything else.
C19_ToolUseWithMessageShown ==
  [][\A s \in 1..Len(streams) : \A k \in {"tool_use", "tool_opaque", "tool_bare"} :
       (streams[s].pc = "read" /\ streams'[s].sent = Append(streams[s].sent, k)) =>
         /\ streams'[s].log = Append(streams[s].log, Some(T_tool_use))
         /\ k = "tool_use" =>
              elems' = Append(elems, [cls |-> "tool-use", raw |-> <<>>, fmt |-> "tool-json",
                                      text |-> Tool_args, tool |-> Tool_name])
         /\ k = "tool_opaque" =>
              elems' = Append(elems, [cls |-> "tool-use", raw |-> <<>>, fmt |-> "text",
                                      text |-> Tool_opaque, tool |-> <<>>])
         /\ k = "tool_bare" => elems' = elems
         /\ streams'[s].cur = streams[s].cur
         /\ UNCHANGED <<storage, typing, authUrl, pollers, timers>>
    ]_vars

\* a turn of three tool_use events, the second without a message: two items are shown
C19_TwoOfThreeShown ==
  \E s \in Streams :
    /\ streams[s].sent = <<"tool_use", "tool_bare", "tool_opaque">>
    /\ Len(streams[s].log) = 3
    /\ Cardinality({i \in 1..Len(elems) : elems[i].cls = "tool-use"}) = 2
    /\ elems[Len(elems)].text = Tool_opaque

\* C20 (PollFailSpec): a status query that fails does not end the session: the step
\* that handles the failure schedules the next poll and changes nothing else, and
\* the failed query has been counted: a session stops only as superseded or as
\* exhausted, never issues more than maxAttempts queries, and when its queries
\* all failed it gives up after exactly maxAttempts of them.
C20_PollFailureIsTransient ==
  [][\A i \in 1..Len(pollers) :
       /\ pollers[i].pc = "fetch" =>
            \/ pollers'[i] = pollers[i]
            \/ /\ pollers'[i] = [pollers[i] EXCEPT !.pc = "timer"]
               /\ pollers'[i].attempt = pollers[i].queries
               /\ UNCHANGED <<storage, elems, typing, authUrl, streams, timers>>
       /\ pollers'[i].queries <= maxAttempts
       /\ pollers'[i].pc = "stopped" =>
            /\ pollers'[i].why \in {"exhausted", "superseded"}
            /\ pollers'[i].why = "exhausted" => pollers'[i].queries = maxAttempts
    ]_vars

\* every query of the session has failed and it has given up after maxAttempts queries
C20_GaveUpAfterFailures ==
  \E i \in Pollers :
    /\ pollers[i].pc = "stopped" /\ pollers[i].why = "exhausted"
    /\ pollers[i].queries = maxAttempts
    /\ storage.poll = Some(pollers[i].id)
    /\ storage.last # None

\* C21 (Spec): a polling session that has been superseded, that is after which
\* another session was started, issues no status query after that start.
C21_SupersededIssuesNoQuery ==
  [][\A i \in 1..Len(pollers) :
       i < Len(pollers) => pollers'[i].queries = pollers[i].queries
    ]_vars

\* C22 (TurnSpec): an auth_required event does not end the stream: the step that
\* dispatches it leaves the stream reading, its current element and the container
\* as they were, and every frame that arrives after it is decoded and dispatched
\* as before, a chunk going to the same current element.
C22_StreamGoesOnAfterAuthRequired ==
  [][\A s \in 1..Len(streams) :
       /\ (Dispatches(s) /\ LastOf(streams'[s].log) = Some(T_auth_required)) =>
            /\ streams'[s].pc = "read" /\ ~streams'[s].closed
            /\ streams'[s].cur = streams[s].cur
            /\ storage'.last = Some(streams[s].msg)
            /\ UNCHANGED <<elems, typing, authUrl>>
       /\ \A k \in TurnKinds :
            (/\ Some(T_auth_required) \in Range(streams[s].log)
             /\ streams'[s].sent = Append(streams[s].sent, k)) =>
               /\ streams'[s].log = streams[s].log \o EventTypes(<<k>>)
               /\ streams'[s].emitted = Append(streams[s].emitted, FrameText(k))
               /\ k = "chunk" =>
                    /\ streams'[s].cur = streams[s].cur
                    /\ elems'[streams[s].cur].raw = elems[streams[s].cur].raw \o Text_Hello
                    /\ elems'[streams[s].cur].text = elems'[streams[s].cur].raw
    ]_vars

\* chunk, auth_required, chunk: both chunks are in the one message of the turn
C22_ChunkAfterAuthRequired ==
  \E s \in Streams :
    /\ streams[s].sent = <<"chunk", "auth_required", "chunk">>
    /\ streams[s].pc = "read"
    /\ streams[s].log = <<Some(T_chunk), Some(T_auth_required), Some(T_chunk)>>
    /\ elems[streams[s].cur].raw = Text_Hello \o Text_Hello
    /\ storage.last = Some(UserText_a)

\* C23 (TurnSpec): end_turn ends the turn: once a stream has dispatched end_turn, no
\* later event of that stream changes the messages of the container or which of
\* them is the current one.
C23_NothingAfterEndTurn ==
  [][\A s \in 1..Len(streams) :
       Some(T_end_turn) \in Range(streams[s].log) =>
         /\ elems' = elems
         /\ streams'[s].cur = streams[s].cur
    ]_vars

\* a step in which stream s dispatches an auth_required event
DispatchesAuthRequired(s) ==
  Dispatches(s) /\ LastOf(streams'[s].log) = Some(T_auth_required)

\* a step in which a call of startTokenPolling starts a polling session
StartsPolling == Len(pollers') = Len(pollers) + 1

\* a step in which the status query of session i is answered 'authorized'
AnsweredAuthorized(i) ==
  /\ pollers[i].pc = "fetch"
  /\ pollers'[i].pc = "stopped" /\ pollers'[i].why = "authorized"

\* C24 (Spec): the pending message is written only by the dispatch of an auth_required
\* event and the recorded polling id only by a call that starts a polling session;
\* no other step, and no step of a poller, sets or removes either.
C24_SingleWriter ==
  [][/\ storage'.last # storage.last => \E s \in 1..Len(streams) : DispatchesAuthRequired(s)
     /\ storage'.poll # storage.poll => StartsPolling
    ]_vars

\* C24 (Spec), as the code has it: the pending message is set only by the dispatch of
\* an auth_required event, to the text of that turn, and the recorded polling id only
\* by a call that starts a polling session, to the id of that session; either is
\* removed only by the step of a poller whose status query is answered 'authorized',
\* which removes the polling id always and the pending message when it is not empty.
\* The other steps of a poller (timer, retry) leave both alone.
C24_WritersOfSharedState ==
  [][/\ storage'.last # storage.last =>
          \/ \E s \in 1..Len(streams) :
               DispatchesAuthRequired(s) /\ storage'.last = Some(streams[s].msg)
          \/ /\ storage'.last = None
             /\ \E i \in 1..Len(pollers) : AnsweredAuthorized(i)
     /\ storage'.poll # storage.poll =>
          \/ StartsPolling /\ storage'.poll = Some(pollers'[Len(pollers')].id)
          \/ /\ storage'.poll = None
             /\ \E i \in 1..Len(pollers) : AnsweredAuthorized(i)
     /\ \A i \in 1..Len(pollers) :
          AnsweredAuthorized(i) =>
            /\ storage'.poll = None
            /\ (storage.last # None /\ storage.last[1] # <<>>) => storage'.last = None
    ]_vars

\* a session was answered 'authorized' after an auth_required event: both items
\* were set and both are removed
C24_BothRemovedOnSuccess ==
  /\ AuthRequiredSeen
  /\ \E i \in Pollers : pollers[i].pc = "stopped" /\ pollers[i].why = "authorized"
  /\ storage.last = None /\ storage.poll = None
  /\ timers # <<>>

(***************************************************************************)
(* The serialization of events: JSON.stringify for the values JSONParse    *)
(* yields, the UTF-8 bytes of a text, and the frames 'data: <json>' each   *)
(* followed by the delimiter.                                              *)
(***************************************************************************)
\* the concatenation of the sequences of ss, by halves
RECURSIVE Flatten(_)
Flatten(ss) ==
  IF ss = <<>> THEN <<>>
  ELSE IF Len(ss) = 1 THEN ss[1]
  ELSE Flatten(SubSeq(ss, 1, Len(ss) \div 2)) \o Flatten(SubSeq(ss, Len(ss) \div 2 + 1, Len(ss)))

\* ss joined by commas
RECURSIVE JoinComma(_)
JoinComma(ss) ==
  IF ss = <<>> THEN <<>>
  ELSE IF Len(ss) = 1 THEN ss[1]
  ELSE ss[1] \o <<",">> \o JoinComma(Tail(ss))

\* a character inside a JSON string literal
EscapeChar(c) ==
  IF c = QUOTE THEN <<BACKSLASH, QUOTE>>
  ELSE IF c = BACKSLASH THEN <<BACKSLASH, BACKSLASH>>
  ELSE IF c = NL THEN <<BACKSLASH, "n">>
  ELSE <<c>>

\* the JSON string literal of the characters cs
Quoted(cs) == <<QUOTE>> \o Flatten([i \in 1..Len(cs) |-> EscapeChar(cs[i])]) \o <<QUOTE>>

\* JSON.stringify(v)
RECURSIVE JSONStringify(_)
JSONStringify(v) ==
  IF v.t = "str" THEN Quoted(v.v)
  ELSE IF v.t = "arr"
    THEN <<"[">> \o JoinComma([i \in 1..Len(v.v) |-> JSONStringify(v.v[i])]) \o <<"]">>
  ELSE <<"{">>
       \o JoinComma([i \in 1..Len(v.v) |->
                       Quoted(v.v[i].k) \o <<":">> \o JSONStringify(v.v[i].v)])
       \o <<"}">>

\* the UTF-8 bytes of a text
TextEncode(text) ==
  Flatten([i \in 1..Len(text) |-> IF text[i] = C_E9 THEN <<B_C3, B_A9>> ELSE <<text[i]>>])

\* the events of the lines a stream has split off: the parsed payloads of the data
\* lines that are JSON, in order
IsEvent(line) == StartsWith(line, Prefix_data) /\ JSONParse(Slice(line, 6)).ok
EventsOf(lines) ==
  LET ls == SelectSeq(lines, IsEvent) IN [i \in 1..Len(ls) |-> JSONParse(Slice(ls[i], 6)).v]

\* the frames 'data: <json>' of the events, each followed by the delimiter
Reserialized(events) ==
  Flatten([i \in 1..Len(events) |-> Prefix_data \o JSONStringify(events[i]) \o Delimiter])

\* the events a new stream emits when it reads the bytes of text in one chunk, and
\* what is left in its buffer
Decoded(text) ==
  CHOOSE x \in
    {[events |-> EventsOf(r.st.emitted), buffer |-> r.st.buffer] :
       r \in {ReadChunk([NewStream(UserText_a, None, "user") EXCEPT
                           !.pc = "read", !.cur = 1, !.wire = TextEncode(text)],
                        Len(TextEncode(text)),
                        [conv |-> None, last |-> None, elems |-> <<NewAssistantElement>>,
                         typing |-> 0, authUrl |-> FALSE, cur |-> 1])}} : TRUE

Ended(i) ==
  /\ pollers[i].pc = "stopped"
  /\ pollers[i].why \in {"authorized", "exhausted", "superseded"}

\* C26 (PollLiveSpec): when the timers fire and every status query resolves or
\* rejects, every polling session that was started eventually ends, by success, by
\* exhausting the attempt bound or by supersession; a session that has ended stays
\* ended and issues no further status query.
C26_EverySessionStops ==
  /\ \A i \in 1..MaxPolls : (i \in Pollers) ~> (i \in Pollers /\ Ended(i))
  /\ [][\A i \in Pollers : Ended(i) => pollers'[i] = pollers[i]]_vars

\* one session has ended superseded, the one after it after maxAttempts queries
C26_SupersededAndExhausted ==
  /\ Len(pollers) = 2
  /\ Ended(1) /\ pollers[1].why = "superseded"
  /\ Ended(2) /\ pollers[2].why = "exhausted" /\ pollers[2].queries = maxAttempts

\* the frames of ks after the last new_message frame
RECURSIVE SinceNewMessage(_)
SinceNewMessage(ks) ==
  IF ks = <<>> THEN <<>>
  ELSE IF LastOf(ks) = "new_message" THEN <<>>
  ELSE Append(SinceNewMessage(SubSeq(ks, 1, Len(ks) - 1)), LastOf(ks))

\* stream s dispatches the event of the frame k in this step
DispatchesKind(s, k) == Dispatches(s) /\ streams'[s].sent = Append(streams[s].sent, k)

\* in every step that dispatches a chunk the current message gets the payload
\* appended to its rawText and shows the rawText as plain text; the rawText of the
\* current message is the concatenation of the payloads since it became current
ChunksAccumulate ==
  \A s \in 1..Len(streams) : \A k \in ChunkKinds :
    DispatchesKind(s, k) =>
      /\ elems'[streams'[s].cur].raw = ChunkText(SinceNewMessage(streams'[s].sent))
      /\ EventType(k) = T_chunk =>
           /\ streams'[s].cur = streams[s].cur
           /\ elems'[streams[s].cur].raw = elems[streams[s].cur].raw \o ChunkOf(k)
           /\ elems'[streams[s].cur].text = elems'[streams[s].cur].raw
           /\ elems'[streams[s].cur].fmt = "text"

\* an element of the container gets rendered markup only as the current message of a
\* stream that dispatches message_complete or new_message
RenderedOnlyWhenComplete ==
  \A j \in 1..Len(elems) :
    (elems'[j].fmt = "html" /\ elems[j].fmt # "html") =>
      \E s \in 1..Len(streams) :
        /\ j = streams[s].cur
        /\ DispatchesKind(s, "message_complete") \/ DispatchesKind(s, "new_message")

\* C27 (ChunkSpec): after every chunk the rawText of the current message is the
\* concatenation of the chunk payloads in arrival order and the message shows the
\* rawText as plain text; markup is rendered only on message_complete and
\* new_message, and there the message shows the rendering of its whole rawText.
C27_ChunkAccumulation ==
  [][/\ ChunksAccumulate
     /\ RenderedOnlyWhenComplete
     /\ \A s \in 1..Len(streams) : \A k \in {"message_complete", "new_message"} :
          DispatchesKind(s, k) =>
            /\ elems'[streams[s].cur].raw = elems[streams[s].cur].raw
            /\ elems'[streams[s].cur].text = elems[streams[s].cur].raw
            /\ elems[streams[s].cur].raw # <<>> => elems'[streams[s].cur].fmt = "html"
    ]_vars

\* C27 (ChunkSpec), as the code has it: the same, but on message_complete and
\* new_message the message shows the rendering of its rawText only when the rawText
\* is not empty; a message with an empty rawText is left as it is.
C27_ChunksThenRendering ==
  [][/\ ChunksAccumulate
     /\ RenderedOnlyWhenComplete
     /\ \A s \in 1..Len(streams) : \A k \in {"message_complete", "new_message"} :
          DispatchesKind(s, k) =>
            IF elems[streams[s].cur].raw # <<>>
              THEN /\ elems'[streams[s].cur].raw = elems[streams[s].cur].raw
                   /\ elems'[streams[s].cur].text = elems[streams[s].cur].raw
                   /\ elems'[streams[s].cur].fmt = "html"
              ELSE elems'[streams[s].cur] = elems[streams[s].cur]
    ]_vars

\* two chunks of different texts, then message_complete: the message shows the
\* rendering of the two texts in arrival order
C27_TwoChunksRendered ==
  \E s \in Streams :
    /\ streams[s].sent = <<"chunk_esc", "chunk", "message_complete">>
    /\ elems[streams[s].cur].raw = Text_esc \o Text_Hello
    /\ elems[streams[s].cur].text = Text_esc \o Text_Hello
    /\ elems[streams[s].cur].fmt = "html"

\* C28 (Spec): the identifiers of any two polling sessions differ.
C28_SessionIdsDiffer ==
  \A i \in Pollers : \A j \in Pollers : i # j => pollers[i].id # pollers[j].id

\* the frames of ks that carry no event of an unrecognized type
RECURSIVE Recognized(_)
Recognized(ks) ==
  IF ks = <<>> THEN <<>>
  ELSE (IF Head(ks) = "unknown" THEN <<>> ELSE <<Head(ks)>>) \o Recognized(Tail(ks))

\* the state is what the frames sent to the stream yield without those of an
\* unrecognized type: the events dispatched besides those, the elements appended
\* to the container, the text of the current message
AsWithoutUnknown ==
  \A s \in Streams : streams[s].pc # "fetch" =>
    \E ks \in {Recognized(streams[s].sent)} :
      /\ SelectSeq(streams[s].log, LAMBDA t : t # Some(Text_ping)) = EventTypes(ks)
      /\ Classes(SubSeq(elems, 4, Len(elems))) = AppendedBy(ks)
      /\ elems[streams[s].cur].raw = ChunkText(SinceNewMessage(ks))

\* C29 (TurnSpec): the dispatch of an event of an unrecognized type changes nothing
\* (the container and its messages, the current message, the typing indicator, the
\* stored conversation id, pending message and polling id) and leaves the stream
\* reading; the events around it have the effect they have without it.
C29_UnknownIgnored ==
  [][/\ \A s \in 1..Len(streams) :
          DispatchesKind(s, "unknown") =>
            /\ UNCHANGED <<storage, elems, typing, authUrl, pollers, timers>>
            /\ streams'[s].cur = streams[s].cur
            /\ streams'[s].pc = "read" /\ streams'[s].buffer = <<>>
            /\ LastOf(streams'[s].log) = Some(Text_ping)
     /\ AsWithoutUnknown'
    ]_vars

\* a chunk, an event of an unrecognized type, a chunk: the message shows both chunks
C29_ChunkAfterUnknown ==
  \E s \in Streams :
    /\ streams[s].sent = <<"chunk", "unknown", "chunk">>
    /\ streams[s].log = <<Some(T_chunk), Some(Text_ping), Some(T_chunk)>>
    /\ elems[streams[s].cur].raw = Text_Hello \o Text_Hello
    /\ elems[streams[s].cur].text = Text_Hello \o Text_Hello

\* C30 (TurnSpec): the dispatch of a product_results or a content_block_complete
\* event leaves the turn as it is: the stream's current message is the same element
\* with the same rawText and the same display, no other message of the container
\* changes, and the stored conversation id and pending message are the same.  The
\* first appends a product section to the container, the second shows a typing
\* indicator.
C30_ProductsAndBlockCompleteKeepTurn ==
  [][\A s \in 1..Len(streams) :
       /\ (DispatchesKind(s, "products") \/ DispatchesKind(s, "content_block_complete")) =>
            /\ streams'[s].cur = streams[s].cur
            /\ elems'[streams[s].cur] = elems[streams[s].cur]
            /\ SubSeq(elems', 1, Len(elems)) = elems
            /\ UNCHANGED <<storage, authUrl, pollers, timers>>
            /\ streams'[s].pc = "read"
       /\ DispatchesKind(s, "products") =>
            /\ Len(elems') = Len(elems) + 1
            /\ LastOf(elems').cls = "product-section"
            /\ typing' = typing
       /\ DispatchesKind(s, "content_block_complete") =>
            /\ elems' = elems
            /\ typing' = typing + 1
    ]_vars

\* a chunk, product_results, content_block_complete: the message still shows the
\* chunk, a product section follows it, a typing indicator is shown
C30_ChunkThenProducts ==
  \E s \in Streams :
    /\ streams[s].sent = <<"chunk", "products", "content_block_complete">>
    /\ elems[streams[s].cur].raw = Text_Hello
    /\ elems[streams[s].cur].text = Text_Hello
    /\ Len(elems) = streams[s].cur + 1
    /\ LastOf(elems).cls = "product-section"
    /\ typing = 1
    /\ storage.conv = None /\ storage.last = None

\* the frames of the model that do not start with 'data: '
NoDataPrefix == {"nondata", "empty", "nospace", "upper"}

\* C31 (PrefixSpec): a complete frame that does not start with 'data: ' is split off
\* and not dispatched: the read that delivers it changes nothing of the storage,
\* the container, the typing indicator or the stream's current element and leaves
\* the stream reading; the events dispatched and the text of the current message
\* are those of the other frames, so the frames after it are processed.
C31_NoPrefixNoEvent ==
  [][\A s \in 1..Len(streams) : \A k \in PrefixKinds :
       streams'[s].sent = Append(streams[s].sent, k) =>
         /\ ~StartsWith(FrameText(k), Prefix_data) <=> k \in NoDataPrefix
         /\ streams'[s].emitted = Append(streams[s].emitted, FrameText(k))
         /\ k \in NoDataPrefix =>
              /\ streams'[s].log = streams[s].log
              /\ streams'[s].cur = streams[s].cur
              /\ streams'[s].pc = "read" /\ streams'[s].buffer = <<>>
              /\ UNCHANGED <<storage, elems, typing, authUrl, pollers, timers>>
         /\ k \notin NoDataPrefix =>
              streams'[s].log = Append(streams[s].log, Some(EventType(k)))
         /\ elems'[streams'[s].cur].raw = ChunkText(streams'[s].sent)
    ]_vars

\* a chunk written after 'Data: ', one after 'data:', then a chunk after 'data: ':
\* one event, the message shows one chunk
C31_ChunkAfterNoPrefix ==
  \E s \in Streams :
    /\ streams[s].sent = <<"upper", "nospace", "chunk">>
    /\ streams[s].emitted = <<Frame_upper, Frame_nospace, Frame_chunk>>
    /\ streams[s].log = <<Some(T_chunk)>>
    /\ elems[streams[s].cur].raw = Text_Hello
    /\ elems[streams[s].cur].text = Text_Hello

\* a step in which the status query of session i is answered with another status
AnsweredOther(i) == pollers[i].pc = "fetch" /\ pollers'[i].pc = "timer"

\* C32 (Spec): a status answer other than 'authorized' starts no replay, leaves the
\* pending message and the recorded polling id as they are and schedules the next
\* poll of the session; an 'authorized' answer when no pending message is stored
\* starts no replay and removes the recorded polling id.
C32_OtherStatusKeepsWaiting ==
  [][\A i \in 1..Len(pollers) :
       /\ AnsweredOther(i) =>
            /\ UNCHANGED <<storage, timers, streams, elems>>
            /\ pollers'[i] = [pollers[i] EXCEPT !.pc = "timer"]
       /\ (AnsweredAuthorized(i) /\ storage.last = None) =>
            /\ UNCHANGED <<timers, streams, elems>>
            /\ storage' = [storage EXCEPT !.poll = None]
    ]_vars

\* two sessions, the first answered 'authorized' at its second query, the second
\* answered 'authorized' when no message was pending: one replay, no polling id
C32_SecondAuthorizedNoReplay ==
  /\ Len(pollers) = 2
  /\ \A i \in Pollers : pollers[i].pc = "stopped" /\ pollers[i].why = "authorized"
  /\ pollers[1].queries = 2
  /\ Replays = 1
  /\ storage.last = None /\ storage.poll = None

\* the current message of stream s was finalized by message_complete: no
\* new_message was dispatched since
Finalized(s) ==
  \E i \in 1..Len(streams[s].log) :
    /\ streams[s].log[i] = Some(T_message_complete)
    /\ \A j \in (i + 1)..Len(streams[s].log) : streams[s].log[j] # Some(T_new_message)

\* C33 (ChunkSpec): a message that message_complete has finalized keeps its rawText
\* and its rendered display when a chunk is dispatched later in the turn.
C33_FinalizedFrameKeepsContent ==
  [][\A s \in 1..Len(streams) : \A k \in ChunkKinds :
       (Finalized(s) /\ DispatchesKind(s, k) /\ EventType(k) = T_chunk) =>
         elems'[streams[s].cur] = elems[streams[s].cur]
    ]_vars

\* C34 (TurnSpec): at most one typing indicator is in the container, and none when
\* the last event a stream has dispatched is end_turn or error.
C34_AtMostOneTypingIndicator ==
  /\ typing <= 1
  /\ \A s \in Streams :
       (/\ streams[s].log # <<>>
        /\ LastOf(streams[s].log) \in {Some(T_end_turn), Some(T_error)}) => typing = 0

\* the indexes of the PromptHistory rows of a user
HistoryOf(u) == {i \in 1..Len(storage.history) : storage.history[i].userId = u}

\* C35 (PromptSpec): the version history of each user is linear: the versions of the
\* user's PromptHistory rows are pairwise distinct and are 1, 2, ... in the order
\* the rows were created.
C35_VersionsLinear ==
  \A u \in UserIds :
    /\ \A i \in HistoryOf(u) : \A j \in HistoryOf(u) :
         i # j => storage.history[i].version # storage.history[j].version
    /\ \A i \in HistoryOf(u) :
         storage.history[i].version = Cardinality({j \in HistoryOf(u) : j <= i})

\* the current prompt of user u (None when NULL)
CurrentPromptOf(u) == FindUserById(storage.users, u)[1].currentPrompt

\* C36 (PromptSpec): whenever the non-empty current prompt of a user is replaced by
\* another text, the replaced text is the content of one of the user's
\* PromptHistory rows at that moment.
C36_ReplacedPromptIsInHistory ==
  [][\A u \in UserIds :
       (/\ CurrentPromptOf(u) \notin {None, Some("")}
        /\ CurrentPromptOf(u)' # CurrentPromptOf(u)) =>
          \E i \in HistoryOf(u) : Some(storage.history[i].content) = CurrentPromptOf(u)
    ]_vars

\* the history row call c asks for does not exist or belongs to another user
BadHistoryId(c) ==
  \/ streams[c].historyId \notin 1..Len(storage.history)
  \/ storage.history[streams[c].historyId].userId # streams[c].userId

\* C37 (PromptSpec): restorePromptFromHistory with the id of no history row or of a
\* row of another user throws: the call changes neither the current prompt of any
\* user nor the history, the action answers with status 500 and no currentPrompt,
\* and the call does nothing afterwards.
C37_BadRestoreChangesNothing ==
  [][\A c \in 1..Len(streams) :
       /\ (streams[c].pc = "findHistory" /\ BadHistoryId(c) /\ streams'[c] # streams[c]) =>
            /\ storage' = storage
            /\ streams'[c].pc = "thrown"
            /\ streams'[c].status = 500
            /\ streams'[c].currentPrompt = None
       /\ streams[c].pc = "thrown" => streams'[c] = streams[c]
       /\ streams'[c].pc = "thrown" =>
            streams[c].pc \in {"findHistory", "thrown"} /\ streams'[c].fn = "restore"
    ]_vars

\* user u1 asked for a history row of user u2: the call has thrown, the prompt of u1
\* and the row are as before
C37_OtherUsersRowRefused ==
  /\ Len(streams) = 2
  /\ streams[2].fn = "restore" /\ streams[2].userId = "u1" /\ streams[2].historyId = 1
  /\ streams[2].pc = "thrown" /\ streams[2].status = 500
  /\ Len(storage.history) = 1 /\ storage.history[1].userId = "u2"
  /\ CurrentPromptOf("u1") = Some("p0")

\* C38: a stored code verifier is handed out at most once.  Whatever the
\* interleaving of the getCodeVerifier calls, each row is returned by at most
\* one call and is no longer in the table once it has been returned; a call
\* returns either the row its findFirst gave or null, and every call that
\* lost the row to another one has returned null.
C38_VerifierHandedOutOnce ==
  /\ \A c, d \in 1..Len(streams) :
       (/\ streams[c].pc = "done" /\ streams[c].result # None
        /\ streams[d].pc = "done" /\ streams[d].result # None
        /\ streams[c].result[1].id = streams[d].result[1].id) => c = d
  /\ \A c \in 1..Len(streams) :
       streams[c].pc = "done" =>
         /\ streams[c].result \in {None, streams[c].found}
         /\ streams[c].result # None =>
              /\ \A i \in 1..Len(storage.verifiers) :
                   storage.verifiers[i].id # streams[c].result[1].id
              /\ streams[c].result[1].state = streams[c].state

\* C38 witness: two calls with the same state both found the one row; one of
\* them returned it and the other returned null
C38_LoserReturnsNull ==
  /\ Len(streams) >= 2
  /\ streams[1].state = streams[2].state
  /\ streams[1].pc = "done" /\ streams[2].pc = "done"
  /\ streams[1].found # None /\ streams[1].found = streams[2].found
  /\ streams[2].result = streams[2].found
  /\ streams[1].result = None

\* the register calls answered 201
Registered == {c \in 1..Len(streams) : streams[c].status = 201}

\* C39: registration keeps (shopId, username) unique.  Whatever the
\* interleaving, no two register requests for the same pair are answered 201
\* and no two rows have the same pair; a 201 carries a token and the id of the
\* row created for the pair; a request whose check found the pair is answered
\* 409 with no token; and the rows created are exactly those of the requests
\* answered 201, so a request answered otherwise created no user.
C39_RegistrationUnique ==
  /\ \A c, d \in Registered :
       (streams[c].shopId = streams[d].shopId /\ streams[c].username = streams[d].username)
         => c = d
  /\ \A i, j \in 1..Len(storage.users) :
       (storage.users[i].shopId = storage.users[j].shopId
        /\ storage.users[i].username = storage.users[j].username) => i = j
  /\ \A c \in 1..Len(streams) :
       /\ c \in Registered =>
            /\ streams[c].pc = "done" /\ streams[c].token # None /\ streams[c].userId # None
            /\ \E i \in 1..Len(storage.users) :
                 /\ storage.users[i].id = streams[c].userId[1]
                 /\ storage.users[i].shopId = streams[c].shopId
                 /\ storage.users[i].username = streams[c].username
       /\ streams[c].existing =>
            streams[c].pc = "done" /\ streams[c].status = 409 /\ streams[c].token = None
       /\ c \notin Registered => streams[c].token = None /\ streams[c].userId = None
  /\ Len(storage.users) = 1 + Cardinality(Registered)

\* C39 witness: three requests for the same new pair; the first two passed the
\* check before either created: one is answered 201, the other fails on the
\* unique index, and the third, checked afterwards, is answered 409
C39_OneOfThreeRegisters ==
  /\ Len(streams) = 3
  /\ \A c \in 1..3 : streams[c].shopId = "s1" /\ streams[c].username = "cat"
  /\ streams[1].pc = "thrown" /\ streams[1].status = 0
  /\ streams[2].pc = "done" /\ streams[2].status = 201
  /\ streams[3].pc = "done" /\ streams[3].status = 409
  /\ Len(storage.users) = 2

\* the token of a request is one the claim lets authenticate at the day the
\* request was handled: Bearer, decodable, with an expiry that is not in the
\* past, naming an existing, active user
GoodToken(r) ==
  /\ r.header # None /\ r.header[1].scheme = "Bearer"
  /\ r.header[1].token.kind = "json"
  /\ r.header[1].token.exp # None /\ r.header[1].token.exp[1] >= r.at
  /\ \E i \in 1..Len(storage.users) :
       storage.users[i].id = r.header[1].token.userId /\ storage.users[i].isActive

\* login answers as the claim says: a token only with 200, for an existing,
\* active user whose password hash matches; 401, 401 and 403 otherwise
GoodLogin(r) ==
  LET R == {i \in 1..Len(storage.users) :
              storage.users[i].shopId = "s1" /\ storage.users[i].username = r.username} IN
    IF R = {} THEN r.status = 401 /\ r.token = None
    ELSE \A i \in R :
      IF storage.users[i].passwordHash # HashPassword(r.password)
        THEN r.status = 401 /\ r.token = None
      ELSE IF ~storage.users[i].isActive THEN r.status = 403 /\ r.token = None
      ELSE r.status = 200 /\ r.token = Some(GenerateToken(storage.users[i].id, r.at))

\* C40: a bearer token authenticates a request only if it decodes to a payload
\* whose expiry is not in the past and whose userId names an existing, active
\* user: the check endpoint answers authenticated: true, and the prompt
\* endpoints answer otherwise than 401, only for such a token; and login issues
\* a token only to an existing, active user with the matching password hash
\* (401, 401 and 403 otherwise).
C40_TokenAuthenticatesOnlyIfValid ==
  \A c \in 1..Len(streams) :
    /\ streams[c].fn = "check" => (streams[c].authenticated <=> GoodToken(streams[c]))
    /\ streams[c].fn = "prompt" => (streams[c].status # 401 <=> GoodToken(streams[c]))
    /\ streams[c].fn = "login" => GoodLogin(streams[c])
=============================================================================
